---------------------------- MODULE Spec2Model ----------------------------
(***************************************************************************)
(* Concord: cross-checking of README, API contract and test artifacts.     *)
(* The analysis stages (analysis.py, evaluation.py, display_processor.py), *)
(* the claim generator (evidence_to_claim.py) and the evidence extractors  *)
(* (readme_extractor.py, extract.py, test_extractor.py, spec_extractor.py) *)
(* as pure operators, driven by small state machines that draw their       *)
(* inputs from bounded sets.                                               *)
(*                                                                         *)
(* Conventions.  Python None is the string "null".  A float score is the   *)
(* exact rational <<num, den>>.  A confidence is an integer percentage.    *)
(* An assertion token "NS_KIND_..." is the record [ns, kind, code, arg].   *)
(***************************************************************************)
EXTENDS Integers, Sequences, FiniteSets, TLC

VARIABLES
    \* pipeline stages of process.py (claims -> analyses -> evaluations -> display)
    claims, analyses, evaluations, display_context, pc, first_run,
    \* one bucket through analyse_bucket, evaluate_bucket, create_behavior_unit_card
    the_bucket, the_analysis, the_evaluation, narration, unit_card, bpc,
    \* determine_risk_level and map_risk_to_band on their own
    rk_findings, rk_confidence, rk_coverage, rk_level, rk_band, rpc,
    \* DeterministicClaimGenerator._canonicalize_assertion on one observation
    raw_observation, assertion_of, gpc,
    \* the two README extractors on the API sections of one README
    api_sections, responses, readme_evidence, readme_raised, xpc,
    \* extract_test_evidence on the lines of one test file
    lines, test_evidence, test_claims, tpc,
    \* DeterministicClaimGenerator.process on one evidence list
    the_evidence_list, emitted_claims, rejections, kpc,
    \* _find_api_sections on the lines of one README
    document, found_sections, spc,
    \* process_files on a list of input files
    file_paths, enable_logging, all_evidence, stage_errors, process_result, fpc,
    \* extract_spec_evidence on one path item of a contract, and its claims
    path_item, emit_pos, spec_evidence_list, seen, contract_claims, contract_rejections,
    contract_evaluations, cpc

pipeVars == <<claims, analyses, evaluations, display_context, pc, first_run>>
bucketVars == <<the_bucket, the_analysis, the_evaluation, narration, unit_card, bpc>>
riskVars == <<rk_findings, rk_confidence, rk_coverage, rk_level, rk_band, rpc>>

genVars == <<raw_observation, assertion_of, gpc>>
readmeVars == <<api_sections, responses, readme_evidence, readme_raised, xpc>>
testVars == <<lines, test_evidence, test_claims, tpc>>
processVars == <<the_evidence_list, emitted_claims, rejections, kpc>>
sectionVars == <<document, found_sections, spc>>
filesVarsButPc == <<file_paths, enable_logging, all_evidence, stage_errors, process_result>>
filesVars == <<filesVarsButPc, fpc>>
contractVars == <<path_item, emit_pos, spec_evidence_list, seen, contract_claims,
                  contract_rejections, contract_evaluations, cpc>>

vars == <<pipeVars, bucketVars, riskVars, genVars, readmeVars, testVars,
          processVars, sectionVars, filesVars, contractVars>>

\* the variables each state machine leaves alone
NotPipe == <<bucketVars, riskVars, genVars, readmeVars, testVars,
    processVars, sectionVars, filesVars, contractVars>>
NotBucket == <<pipeVars, riskVars, genVars, readmeVars, testVars,
    processVars, sectionVars, filesVars, contractVars>>
NotRisk == <<pipeVars, bucketVars, genVars, readmeVars, testVars,
    processVars, sectionVars, filesVars, contractVars>>
NotGen == <<pipeVars, bucketVars, riskVars, readmeVars, testVars,
    processVars, sectionVars, filesVars, contractVars>>
NotReadme == <<pipeVars, bucketVars, riskVars, genVars, testVars,
    processVars, sectionVars, filesVars, contractVars>>
NotTest == <<pipeVars, bucketVars, riskVars, genVars, readmeVars,
    processVars, sectionVars, filesVars, contractVars>>
NotProcess == <<pipeVars, bucketVars, riskVars, genVars, readmeVars, testVars,
    sectionVars, filesVars, contractVars>>
NotSections == <<pipeVars, bucketVars, riskVars, genVars, readmeVars, testVars,
    processVars, filesVars, contractVars>>
NotFiles == <<pipeVars, bucketVars, riskVars, genVars, readmeVars, testVars,
    processVars, sectionVars, contractVars>>
NotContract == <<pipeVars, bucketVars, riskVars, genVars, readmeVars, testVars,
    processVars, sectionVars, filesVars>>

-----------------------------------------------------------------------------
(* Generic helpers *)

Range(s) == {s[i] : i \in 1..Len(s)}

RECURSIVE SeqSum(_)
SeqSum(s) == IF s = <<>> THEN 0 ELSE Head(s) + SeqSum(Tail(s))

SeqMin(s) == CHOOSE x \in Range(s) : \A y \in Range(s) : x <= y
SeqMax(s) == CHOOSE x \in Range(s) : \A y \in Range(s) : x >= y

\* all sequences over S of length lo..hi
SeqsOf(S, lo, hi) == UNION {[1..n -> S] : n \in lo..hi}

\* exact comparison of the rational score <<num, den>> with the rational a/b
ScoreLt(score, a, b) == score[1] * b < a * score[2]
ScoreEq(score, a, b) == score[1] * b = a * score[2]

-----------------------------------------------------------------------------
(* claims/claim_model.py *)

README   == "readme"
API_SPEC == "api_spec"
TEST     == "test"
CODE     == "code"
ArtifactSource == {README, API_SPEC, TEST, CODE}

ENDPOINT_EXISTS    == "endpoint_exists"
INPUT_PRECONDITION == "input_precondition"
OUTPUT_GUARANTEE   == "output_guarantee"
ERROR_SEMANTICS    == "error_semantics"
IDEMPOTENCY        == "idempotency"
ClaimCategory == {ENDPOINT_EXISTS, INPUT_PRECONDITION, OUTPUT_GUARANTEE,
                  ERROR_SEMANTICS, IDEMPOTENCY}

Claim(cat, ep, cond, asrt, src, conf) ==
    [category |-> cat, endpoint |-> ep, condition |-> cond,
     assertion |-> asrt, source |-> src, confidence |-> conf]

\* mutant: the condition is left out of the key
comparison_key_without_condition(c) == <<c.endpoint, c.category>>

comparison_key(c) == <<c.endpoint, c.category, c.condition>>

\* an assertion token; Token("OUT","HTTP",200,<<>>) is the string OUT_HTTP_200
Token(ns, kind, code, arg) == [ns |-> ns, kind |-> kind, code |-> code, arg |-> arg]

OUT_HTTP(code) == Token("OUT", "HTTP", code, <<>>)
ERR_HTTP(code) == Token("ERR", "HTTP", code, <<>>)

-----------------------------------------------------------------------------
(* analysis/analysis_model.py *)

CONTRADICTION             == "contradiction"
MULTIPLE_SUCCESS_VARIANTS == "multiple_success_variants"
CONFIDENCE_SPREAD         == "confidence_spread"
UNVERIFIED                == "unverified"
MISSING_TESTS             == "missing_tests"
MISSING_SPEC              == "missing_spec"
MISSING_README            == "missing_readme"
IMPLEMENTATION_ONLY       == "implementation_only"
DOCUMENTATION_ONLY        == "documentation_only"
FindingKind == {CONTRADICTION, MULTIPLE_SUCCESS_VARIANTS, CONFIDENCE_SPREAD,
                UNVERIFIED, MISSING_TESTS, MISSING_SPEC, MISSING_README,
                IMPLEMENTATION_ONLY, DOCUMENTATION_ONLY}

\* details=None is NoDetails; a details dict fills the field its finding uses
NoDetails == [variants |-> <<>>, assertion_groups |-> <<>>, spread |-> <<>>]

Finding(kind, related, details) ==
    [kind |-> kind, related_claims |-> related, details |-> details]

Kinds(findings) == {findings[i].kind : i \in 1..Len(findings)}
CountKind(findings, k) == Cardinality({i \in 1..Len(findings) : findings[i].kind = k})

AnalysisObject(bucket, findings) ==
    [endpoint |-> bucket[1].endpoint, category |-> bucket[1].category,
     condition |-> bucket[1].condition, claims |-> bucket, findings |-> findings]

\* mutant: objects are joined on the endpoint alone
Key_endpoint_only(obj) == <<obj.endpoint>>

Key(obj) == <<obj.endpoint, obj.category, obj.condition>>

-----------------------------------------------------------------------------
(* Insertion-ordered dictionaries (dict / defaultdict(list)) as sequences of *)
(* [key, items] entries in first-insertion order.                            *)

HasKey(groups, k) == \E i \in 1..Len(groups) : groups[i].key = k
IndexOfKey(groups, k) == CHOOSE i \in 1..Len(groups) : groups[i].key = k

\* groups[k].append(x)
AppendTo(groups, k, x) ==
    IF HasKey(groups, k)
    THEN [groups EXCEPT ![IndexOfKey(groups, k)].items = Append(@, x)]
    ELSE Append(groups, [key |-> k, items |-> <<x>>])

\* for x in s: groups[key(x)].append(x), with keys[i] the key of s[i]
RECURSIVE GroupFold(_, _, _)
GroupFold(groups, keys, s) ==
    IF s = <<>> THEN groups
    ELSE GroupFold(AppendTo(groups, Head(keys), Head(s)), Tail(keys), Tail(s))

\* the permutations of a finite set, as sequences
SeqPerms(S) ==
    {s \in [1..Cardinality(S) -> S] : \A i, j \in 1..Cardinality(S) : s[i] = s[j] => i = j}

\* list(a_set): the set's elements in the iteration order the hash seed fixes
SetToList(S, seed) == SelectSeq(seed, LAMBDA a : a \in S)

-----------------------------------------------------------------------------
(* analysis/analysis.py *)

group_claims(cs) == GroupFold(<<>>, [i \in 1..Len(cs) |-> comparison_key(cs[i])], cs)

\* re.match(r'OUT_HTTP_2\d{2}', assertion)
IsSuccessToken(a) == a.ns = "OUT" /\ a.kind = "HTTP" /\ a.code \div 100 = 2

detect_multiple_success_variants(bucket, seed) ==
    LET success_codes == {bucket[i].assertion : i \in {j \in 1..Len(bucket) :
                                                  IsSuccessToken(bucket[j].assertion)}}
    IN  IF Cardinality(success_codes) > 1
        THEN << Finding(MULTIPLE_SUCCESS_VARIANTS,
                        SelectSeq(bucket, LAMBDA c : c.assertion \in success_codes),
                        [NoDetails EXCEPT !.variants = SetToList(success_codes, seed)]) >>
        ELSE <<>>

\* mutant: a spread is reported from three claims on
detect_confidence_spread_from_three(bucket) ==
    IF Len(bucket) < 3 THEN <<>>
    ELSE LET confidences == [i \in 1..Len(bucket) |-> bucket[i].confidence]
         IN  << Finding(CONFIDENCE_SPREAD, bucket,
                        [NoDetails EXCEPT !.spread = <<SeqMin(confidences), SeqMax(confidences),
                                                      SeqMax(confidences) - SeqMin(confidences)>>]) >>

detect_confidence_spread(bucket) ==
    IF Len(bucket) < 2 THEN <<>>
    ELSE LET confidences == [i \in 1..Len(bucket) |-> bucket[i].confidence]
             min_conf == SeqMin(confidences)
             max_conf == SeqMax(confidences)
         IN  << Finding(CONFIDENCE_SPREAD, bucket,
                        [NoDetails EXCEPT !.spread = <<min_conf, max_conf, max_conf - min_conf>>]) >>

SourcesOf(bucket) == {bucket[i].source : i \in 1..Len(bucket)}

\* mutant: assertions are grouped by their class of status code
assertion_map_by_class(bucket) ==
    GroupFold(<<>>,
              [i \in 1..Len(bucket) |->
                  [bucket[i].assertion EXCEPT !.code = 100 * (bucket[i].assertion.code \div 100)]],
              bucket)

\* assertion_map: assertion -> claims, in first-seen order
assertion_map(bucket) ==
    GroupFold(<<>>, [i \in 1..Len(bucket) |-> bucket[i].assertion], bucket)

UnverifiedFinding(bucket) ==
    IF Len(bucket) = 1 THEN << Finding(UNVERIFIED, bucket, NoDetails) >> ELSE <<>>

\* mutant: any bucket of several claims is reported as a contradiction
ContradictionFinding_by_size(bucket) ==
    IF Len(bucket) > 1
    THEN << Finding(CONTRADICTION, bucket, NoDetails) >>
    ELSE <<>>

ContradictionFinding(bucket) ==
    LET amap == assertion_map(bucket)
    IN  IF Len(amap) > 1
        THEN << Finding(CONTRADICTION, bucket,
                 [NoDetails EXCEPT !.assertion_groups =
                    [i \in 1..Len(amap) |->
                       [assertion |-> amap[i].key,
                        sources |-> [j \in 1..Len(amap[i].items) |-> amap[i].items[j].source]]]]) >>
        ELSE <<>>

PresenceFindings(bucket) ==
    LET sources == SourcesOf(bucket)
    IN  (IF TEST \notin sources THEN << Finding(MISSING_TESTS, bucket, NoDetails) >> ELSE <<>>)
        \o (IF API_SPEC \notin sources THEN << Finding(MISSING_SPEC, bucket, NoDetails) >> ELSE <<>>)
        \o (IF README \notin sources THEN << Finding(MISSING_README, bucket, NoDetails) >> ELSE <<>>)

\* mutant: documentation-only is reported only when every source is documentation
PatternFindings_documentation_sources_only(bucket) ==
    LET sources == SourcesOf(bucket)
    IN  (IF sources = {TEST}
         THEN << Finding(IMPLEMENTATION_ONLY, bucket, NoDetails) >> ELSE <<>>)
        \o (IF sources # {} /\ sources \subseteq {README, API_SPEC}
            THEN << Finding(DOCUMENTATION_ONLY, bucket, NoDetails) >> ELSE <<>>)

PatternFindings(bucket) ==
    LET sources == SourcesOf(bucket)
    IN  (IF sources = {TEST}
         THEN << Finding(IMPLEMENTATION_ONLY, bucket, NoDetails) >> ELSE <<>>)
        \o (IF TEST \notin sources /\ sources \cap {README, API_SPEC} # {}
            THEN << Finding(DOCUMENTATION_ONLY, bucket, NoDetails) >> ELSE <<>>)

analyse_bucket(bucket, seed) ==
    AnalysisObject(bucket,
        detect_multiple_success_variants(bucket, seed)
        \o detect_confidence_spread(bucket)
        \o UnverifiedFinding(bucket)
        \o ContradictionFinding(bucket)
        \o PresenceFindings(bucket)
        \o PatternFindings(bucket))

analyse_claims(cs, seed) ==
    LET grouped_claims == group_claims(cs)
    IN  [i \in 1..Len(grouped_claims) |-> analyse_bucket(grouped_claims[i].items, seed)]

-----------------------------------------------------------------------------
(* analysis/evaluation.py *)

total_sources == 3

\* mutant: coverage is measured against two sources
calculate_coverage_score_of_two(sources) == <<Cardinality(sources), 2>>

calculate_coverage_score(sources) == <<Cardinality(sources), total_sources>>

\* the source weights 1.0, 0.9, 0.7 and the default 0.5, in tenths
Weight10(src) ==
    CASE src = TEST -> 10
      [] src = API_SPEC -> 9
      [] src = README -> 7
      [] OTHER -> 5

calculate_confidence_score(bucket) ==
    IF bucket = <<>> THEN <<0, 1>>
    ELSE LET weighted_confidence ==
                 SeqSum([i \in 1..Len(bucket) |-> bucket[i].confidence * Weight10(bucket[i].source)])
             total_weight == SeqSum([i \in 1..Len(bucket) |-> Weight10(bucket[i].source)])
         IN  IF total_weight > 0 THEN <<weighted_confidence, 100 * total_weight>> ELSE <<0, 1>>

\* mutant: the 'high' rung is tried before the 'critical' rung
determine_risk_level_high_first(findings, confidence_score, coverage_score) ==
    LET kinds == Kinds(findings)
    IN  IF \/ MULTIPLE_SUCCESS_VARIANTS \in kinds
           \/ DOCUMENTATION_ONLY \in kinds
           \/ ScoreLt(confidence_score, 5, 10)
           \/ ScoreLt(coverage_score, 5, 10) THEN "high"
        ELSE IF CONTRADICTION \in kinds \/ ScoreLt(confidence_score, 3, 10) THEN "critical"
        ELSE IF ScoreLt(confidence_score, 7, 10) \/ ScoreLt(coverage_score, 7, 10) THEN "medium"
        ELSE "low"

determine_risk_level(findings, confidence_score, coverage_score) ==
    LET kinds == Kinds(findings)
    IN  IF CONTRADICTION \in kinds \/ ScoreLt(confidence_score, 3, 10) THEN "critical"
        ELSE IF \/ MULTIPLE_SUCCESS_VARIANTS \in kinds
                \/ DOCUMENTATION_ONLY \in kinds
                \/ ScoreLt(confidence_score, 5, 10)
                \/ ScoreLt(coverage_score, 5, 10) THEN "high"
        ELSE IF ScoreLt(confidence_score, 7, 10) \/ ScoreLt(coverage_score, 7, 10) THEN "medium"
        ELSE "low"

evaluate_bucket(bucket, findings) ==
    LET coverage_score == calculate_coverage_score(SourcesOf(bucket))
        confidence_score == calculate_confidence_score(bucket)
    IN  [endpoint |-> bucket[1].endpoint, category |-> bucket[1].category,
         condition |-> bucket[1].condition, claims |-> bucket, findings |-> findings,
         coverage_score |-> coverage_score, confidence_score |-> confidence_score,
         risk_level |-> determine_risk_level(findings, confidence_score, coverage_score)]

-----------------------------------------------------------------------------
(* gemini/inference.py: the narrative collaborator.  The call returns text, *)
(* returns an empty response, or raises.                                    *)

NarrationOutcomes == {"text", "empty", "raise"}
RAISED == "raised"

generate_semantic_description(outcome) ==
    CASE outcome = "text"  -> "narrative"
      [] outcome = "empty" -> "Unable to generate semantic description"
      [] OTHER             -> RAISED

-----------------------------------------------------------------------------
(* display/display_processor.py *)

create_assertion_state(cs) ==
    LET assertion_groups == GroupFold(<<>>, [i \in 1..Len(cs) |-> cs[i].assertion], cs)
        has_conflicts == Len(assertion_groups) > 1
    IN  [assertions |-> [i \in 1..Len(assertion_groups) |->
                           [assertion |-> assertion_groups[i].key,
                            sources |-> SourcesOf(assertion_groups[i].items),
                            is_conflicted |-> has_conflicts]],
         has_conflicts |-> has_conflicts]

create_source_coverage(cs) ==
    LET sources == SourcesOf(cs)
    IN  [test |-> TEST \in sources, api_spec |-> API_SPEC \in sources,
         readme |-> README \in sources]

structural_kinds ==
    {CONTRADICTION, DOCUMENTATION_ONLY, IMPLEMENTATION_ONLY, UNVERIFIED,
     MULTIPLE_SUCCESS_VARIANTS}

extract_structural_warnings(findings) ==
    LET kept == SelectSeq(findings, LAMBDA f : f.kind \in structural_kinds)
    IN  [i \in 1..Len(kept) |-> kept[i].kind]

\* mapping.get(risk_level, RiskBand.LOW)
map_risk_to_band(risk_level) ==
    CASE risk_level = "critical" -> "critical"
      [] risk_level = "high"     -> "high"
      [] risk_level = "medium"   -> "medium"
      [] OTHER                   -> "low"

\* the try/except around the narration call
semantic_description_of(assertion_state, cs, outcome) ==
    IF assertion_state.has_conflicts /\ cs # <<>>
    THEN LET r == generate_semantic_description(outcome)
         IN  IF r = RAISED THEN "null" ELSE r
    ELSE "null"

create_behavior_unit_card(analysis, evaluation, outcome) ==
    LET assertion_state == create_assertion_state(analysis.claims)
    IN  [endpoint |-> analysis.endpoint,
         condition |-> analysis.condition,
         category |-> analysis.category,
         assertion_state |-> assertion_state,
         source_coverage |-> create_source_coverage(analysis.claims),
         structural_warnings |-> extract_structural_warnings(analysis.findings),
         coverage_score |-> evaluation.coverage_score,
         confidence_score |-> evaluation.confidence_score,
         risk_band |-> map_risk_to_band(evaluation.risk_level),
         semantic_description |->
             semantic_description_of(assertion_state, analysis.claims, outcome),
         claims |-> analysis.claims,
         findings |-> analysis.findings]

\* display_model.py SourceCoverage.count
coverage_count(sc) ==
    (IF sc.test THEN 1 ELSE 0) + (IF sc.api_spec THEN 1 ELSE 0) + (IF sc.readme THEN 1 ELSE 0)

\* mutant: a true partition, each unit in the list of its first gap only
create_coverage_view_first_gap(units) ==
    [no_tests      |-> SelectSeq(units, LAMBDA u : ~u.source_coverage.test),
     no_spec       |-> SelectSeq(units, LAMBDA u : u.source_coverage.test /\ ~u.source_coverage.api_spec),
     no_readme     |-> SelectSeq(units, LAMBDA u : u.source_coverage.test /\ u.source_coverage.api_spec
                                                  /\ ~u.source_coverage.readme),
     full_coverage |-> SelectSeq(units, LAMBDA u : coverage_count(u.source_coverage) = 3)]

create_coverage_view(units) ==
    [no_tests      |-> SelectSeq(units, LAMBDA u : ~u.source_coverage.test),
     no_spec       |-> SelectSeq(units, LAMBDA u : ~u.source_coverage.api_spec),
     no_readme     |-> SelectSeq(units, LAMBDA u : ~u.source_coverage.readme),
     full_coverage |-> SelectSeq(units, LAMBDA u : coverage_count(u.source_coverage) = 3)]

contradiction_warnings(u) ==
    Cardinality({i \in 1..Len(u.structural_warnings) : u.structural_warnings[i] = CONTRADICTION})

\* list.sort(key=contradiction count, reverse=True): stable, descending
RECURSIVE sort_by_contradictions(_)
sort_by_contradictions(units) ==
    IF units = <<>> THEN <<>>
    ELSE LET top == SeqMax([i \in 1..Len(units) |-> contradiction_warnings(units[i])])
         IN  SelectSeq(units, LAMBDA u : contradiction_warnings(u) = top)
             \o sort_by_contradictions(SelectSeq(units, LAMBDA u : contradiction_warnings(u) # top))

create_risk_driven_view(units) ==
    [critical_behaviors    |-> sort_by_contradictions(SelectSeq(units, LAMBDA u : u.risk_band = "critical")),
     high_risk_behaviors   |-> sort_by_contradictions(SelectSeq(units, LAMBDA u : u.risk_band = "high")),
     medium_risk_behaviors |-> sort_by_contradictions(SelectSeq(units, LAMBDA u : u.risk_band = "medium")),
     low_risk_behaviors    |-> sort_by_contradictions(SelectSeq(units, LAMBDA u : u.risk_band = "low"))]

risk_priority(band) ==
    CASE band = "critical" -> 4 [] band = "high" -> 3 [] band = "medium" -> 2
      [] band = "low" -> 1 [] OTHER -> 0

create_endpoint_summary(endpoint, units) ==
    LET prios == [i \in 1..Len(units) |-> risk_priority(units[i].risk_band)]
        first_max == CHOOSE i \in 1..Len(units) :
                        /\ prios[i] = SeqMax(prios)
                        /\ \A j \in 1..(i - 1) : prios[j] < prios[i]
    IN  [endpoint |-> endpoint,
         behavior_count |-> Len(units),
         contradiction_count |->
             Cardinality({i \in 1..Len(units) : CONTRADICTION \in Range(units[i].structural_warnings)}),
         undocumented_count |->
             Cardinality({i \in 1..Len(units) : DOCUMENTATION_ONLY \in Range(units[i].structural_warnings)}),
         highest_risk_band |-> IF units = <<>> THEN "null" ELSE units[first_max].risk_band,
         behavioral_units |-> units]

\* eval_map = {e.key(): e for e in evaluations}: the last evaluation of a key wins
HasEvaluation(evals, k) == \E i \in 1..Len(evals) : Key(evals[i]) = k
eval_map_get(evals, k) ==
    evals[CHOOSE i \in 1..Len(evals) :
            Key(evals[i]) = k /\ \A j \in (i + 1)..Len(evals) : Key(evals[j]) # k]

\* the loop over analyses; outcomes[i] is the narration call's outcome for analyses[i]
RECURSIVE unit_cards(_, _, _, _)
unit_cards(as, evals, outcomes, i) ==
    IF i > Len(as) THEN <<>>
    ELSE (IF HasEvaluation(evals, Key(as[i]))
          THEN << create_behavior_unit_card(as[i], eval_map_get(evals, Key(as[i])), outcomes[i]) >>
          ELSE <<>>)
         \o unit_cards(as, evals, outcomes, i + 1)

create_display_context(as, evals, outcomes) ==
    LET units == unit_cards(as, evals, outcomes, 1)
        endpoint_groups == GroupFold(<<>>, [i \in 1..Len(units) |-> units[i].endpoint], units)
    IN  [behavioral_units |-> units,
         endpoint_summaries |->
             [i \in 1..Len(endpoint_groups) |->
                 create_endpoint_summary(endpoint_groups[i].key, endpoint_groups[i].items)],
         risk_driven_view |-> create_risk_driven_view(units),
         coverage_view |-> create_coverage_view(units)]

-----------------------------------------------------------------------------
(* process.py, stages 3-5: claims -> analyse_claims -> evaluate_bucket ->    *)
(* create_display_context.  The claims are drawn from four comparison keys   *)
(* that differ pairwise in the endpoint, the category or the condition, and  *)
(* from the README / contract / test claims of one behaviour.                *)

MaxClaims == 3

BaseKey == <<"GET /USERS/{id}", OUTPUT_GUARANTEE, "null">>

OtherOutputKeys ==
    { <<"POST /ORDERS",    OUTPUT_GUARANTEE, "null">>,
      <<"GET /USERS/{id}", OUTPUT_GUARANTEE, "USER_EXISTS">> }

ErrorKey == <<"GET /USERS/{id}", ERROR_SEMANTICS, "null">>

\* evidence_to_claim.py:184: confidence 0.7 from a README, 0.9 otherwise
BaseFlavours ==
    { <<OUT_HTTP(200), README, 70>>, <<OUT_HTTP(201), API_SPEC, 90>>,
      <<OUT_HTTP(201), TEST, 90>> }

OtherOutputFlavours == { <<OUT_HTTP(200), README, 70>>, <<OUT_HTTP(201), TEST, 90>> }

ErrorFlavours == { <<ERR_HTTP(404), README, 70>>, <<ERR_HTTP(400), TEST, 90>> }

ClaimsOf(keys, flavours) ==
    { Claim(k[2], k[1], k[3], f[1], f[2], f[3]) : k \in keys, f \in flavours }

PipelineClaims ==
    ClaimsOf({BaseKey}, BaseFlavours) \cup ClaimsOf(OtherOutputKeys, OtherOutputFlavours)
        \cup ClaimsOf({ErrorKey}, ErrorFlavours)

AssertionsOf(cs) == {cs[i].assertion : i \in 1..Len(cs)}

NoDisplay ==
    [behavioral_units |-> <<>>, endpoint_summaries |-> <<>>,
     risk_driven_view |-> create_risk_driven_view(<<>>),
     coverage_view |-> create_coverage_view(<<>>)]

IdlePipe ==
    /\ claims = <<>>
    /\ analyses = <<>>
    /\ evaluations = <<>>
    /\ display_context = NoDisplay
    /\ pc = "idle"
    /\ first_run = <<>>

IdleBucket ==
    /\ the_bucket = <<>>
    /\ the_analysis = <<>>
    /\ the_evaluation = <<>>
    /\ narration = "none"
    /\ unit_card = <<>>
    /\ bpc = "idle"

IdleRisk ==
    /\ rk_findings = <<>>
    /\ rk_confidence = <<0, 1>>
    /\ rk_coverage = <<0, 1>>
    /\ rk_level = "null"
    /\ rk_band = "null"
    /\ rpc = "idle"

IdleGen ==
    /\ raw_observation = <<>>
    /\ assertion_of = <<>>
    /\ gpc = "idle"

IdleReadme ==
    /\ api_sections = <<>>
    /\ responses = <<>>
    /\ readme_evidence = <<>>
    /\ readme_raised = FALSE
    /\ xpc = "idle"

IdleTest ==
    /\ lines = <<>>
    /\ test_evidence = <<>>
    /\ test_claims = <<>>
    /\ tpc = "idle"

IdleProcess ==
    /\ the_evidence_list = <<>>
    /\ emitted_claims = <<>>
    /\ rejections = <<>>
    /\ kpc = "idle"

IdleSections ==
    /\ document = <<>>
    /\ found_sections = <<>>
    /\ spc = "idle"

IdleFiles ==
    /\ file_paths = <<>>
    /\ enable_logging = FALSE
    /\ all_evidence = <<>>
    /\ stage_errors = <<>>
    /\ process_result = <<>>
    /\ fpc = "idle"

IdleContract ==
    /\ path_item = <<>>
    /\ emit_pos = 0
    /\ spec_evidence_list = <<>>
    /\ seen = {}
    /\ contract_claims = <<>>
    /\ contract_rejections = <<>>
    /\ contract_evaluations = <<>>
    /\ cpc = "idle"

Init ==
    /\ claims \in SeqsOf(PipelineClaims, 0, MaxClaims)
    /\ analyses = <<>>
    /\ evaluations = <<>>
    /\ display_context = NoDisplay
    /\ pc = "claims"
    /\ first_run = <<>>
    /\ IdleBucket
    /\ IdleRisk
    /\ IdleGen
    /\ IdleReadme
    /\ IdleTest
    /\ IdleProcess
    /\ IdleSections
    /\ IdleFiles
    /\ IdleContract

\* process.py stage 3; the hash seed of the run fixes the order of list(a_set)
Analyse ==
    /\ pc = "claims"
    /\ \E seed \in SeqPerms(AssertionsOf(claims)) :
          analyses' = analyse_claims(claims, seed)
    /\ pc' = "analysed"
    /\ UNCHANGED <<claims, evaluations, display_context, first_run, NotPipe>>

EvaluateAll(as) == [i \in 1..Len(as) |-> evaluate_bucket(as[i].claims, as[i].findings)]

\* the subsequence of s at the indices in keep
RECURSIVE Pick(_, _, _)
Pick(s, keep, i) ==
    IF i > Len(s) THEN <<>>
    ELSE (IF i \in keep THEN <<s[i]>> ELSE <<>>) \o Pick(s, keep, i + 1)

\* process.py stage 4
Evaluate ==
    /\ pc = "analysed"
    /\ evaluations' = EvaluateAll(analyses)
    /\ pc' = "evaluated"
    /\ UNCHANGED <<claims, analyses, display_context, first_run, NotPipe>>

\* a caller of create_display_context that lost the evaluation of some buckets
EvaluatePartial ==
    /\ pc = "analysed"
    /\ \E keep \in (SUBSET (1..Len(analyses))) \ {1..Len(analyses)} :
          evaluations' = Pick(EvaluateAll(analyses), keep, 1)
    /\ pc' = "evaluated"
    /\ UNCHANGED <<claims, analyses, display_context, first_run, NotPipe>>

Conflicted(a) == create_assertion_state(a.claims).has_conflicts

\* process.py stage 5; each narration call returns text, nothing, or raises
Display ==
    /\ pc = "evaluated"
    /\ \E outcomes \in [1..Len(analyses) -> NarrationOutcomes] :
          /\ \A i \in 1..Len(analyses) : ~Conflicted(analyses[i]) => outcomes[i] = "text"
          /\ display_context' = create_display_context(analyses, evaluations, outcomes)
    /\ pc' = "displayed"
    /\ UNCHANGED <<claims, analyses, evaluations, first_run, NotPipe>>

\* the pipeline is run again on the same claims, in a new process
Rerun ==
    /\ pc = "evaluated"
    /\ first_run = <<>>
    /\ Len(evaluations) = Len(analyses)
    /\ first_run' = << [analyses |-> analyses, evaluations |-> evaluations] >>
    /\ analyses' = <<>>
    /\ evaluations' = <<>>
    /\ pc' = "claims"
    /\ UNCHANGED <<claims, display_context, NotPipe>>

Next == Analyse \/ Evaluate \/ EvaluatePartial \/ Display

Spec == Init /\ [][Next]_vars

NextRerun == Analyse \/ Evaluate \/ Rerun

SpecRerun == Init /\ [][NextRerun]_vars

-----------------------------------------------------------------------------
(* One bucket (claims of one comparison key, as group_claims hands them to   *)
(* analyse_bucket) through analysis, evaluation and the unit card.           *)

MaxBucket == 4

BucketKey == <<"GET /USERS/{id}", OUTPUT_GUARANTEE, "null">>

\* every source the Claim model accepts, with two success codes; one error code
BucketFlavours ==
    ({OUT_HTTP(200), OUT_HTTP(201)} \X ArtifactSource) \cup ({OUT_HTTP(404)} \X {TEST})

\* evidence_to_claim.py:184
confidence_of(source) == IF source # README THEN 90 ELSE 70

BucketClaims ==
    { Claim(BucketKey[2], BucketKey[1], BucketKey[3], f[1], f[2], confidence_of(f[2])) :
        f \in BucketFlavours }

InitBucket ==
    /\ the_bucket \in SeqsOf(BucketClaims, 1, MaxBucket)
    /\ the_analysis = <<>>
    /\ the_evaluation = <<>>
    /\ narration = "none"
    /\ unit_card = <<>>
    /\ bpc = "bucket"
    /\ IdlePipe
    /\ IdleRisk
    /\ IdleGen
    /\ IdleReadme
    /\ IdleTest
    /\ IdleProcess
    /\ IdleSections
    /\ IdleFiles
    /\ IdleContract

AnalyseBucket ==
    /\ bpc = "bucket"
    /\ \E seed \in SeqPerms(AssertionsOf(the_bucket)) :
          the_analysis' = << analyse_bucket(the_bucket, seed) >>
    /\ bpc' = "analysed"
    /\ UNCHANGED <<the_bucket, the_evaluation, narration, unit_card, NotBucket>>

EvaluateBucket ==
    /\ bpc = "analysed"
    /\ the_evaluation' = << evaluate_bucket(the_analysis[1].claims, the_analysis[1].findings) >>
    /\ bpc' = "evaluated"
    /\ UNCHANGED <<the_bucket, the_analysis, narration, unit_card, NotBucket>>

CreateCard ==
    /\ bpc = "evaluated"
    /\ \E outcome \in NarrationOutcomes \cup {"none"} :
          \* the narration call is made for a conflicted bucket only
          /\ outcome = "none" <=> ~Conflicted(the_analysis[1])
          /\ narration' = outcome
          /\ unit_card' = << create_behavior_unit_card(the_analysis[1], the_evaluation[1], outcome) >>
    /\ bpc' = "card"
    /\ UNCHANGED <<the_bucket, the_analysis, the_evaluation, NotBucket>>

NextBucket == AnalyseBucket \/ EvaluateBucket \/ CreateCard

SpecBucket == InitBucket /\ [][NextBucket]_vars

-----------------------------------------------------------------------------
(* determine_risk_level and map_risk_to_band on any findings and scores.     *)

RiskKinds == {CONTRADICTION, MULTIPLE_SUCCESS_VARIANTS, DOCUMENTATION_ONLY, UNVERIFIED}

\* the findings of the kinds in ks, in analyse_bucket's order
FindingsOfKinds(ks) ==
    SelectSeq(<< Finding(MULTIPLE_SUCCESS_VARIANTS, <<>>, NoDetails),
                 Finding(UNVERIFIED, <<>>, NoDetails),
                 Finding(CONTRADICTION, <<>>, NoDetails),
                 Finding(DOCUMENTATION_ONLY, <<>>, NoDetails) >>,
              LAMBDA f : f.kind \in ks)

\* confidence scores around the thresholds 0.3, 0.5, 0.7, in hundredths
RiskConfidences == {20, 29, 30, 40, 49, 50, 60, 69, 70, 90}

\* coverage scores n/3
RiskCoverages == 0..4

InitRisk ==
    /\ rk_findings \in {FindingsOfKinds(ks) : ks \in SUBSET RiskKinds}
    /\ rk_confidence \in {<<c, 100>> : c \in RiskConfidences}
    /\ rk_coverage \in {<<n, total_sources>> : n \in RiskCoverages}
    /\ rk_level = "null"
    /\ rk_band = "null"
    /\ rpc = "scored"
    /\ IdlePipe
    /\ IdleBucket
    /\ IdleGen
    /\ IdleReadme
    /\ IdleTest
    /\ IdleProcess
    /\ IdleSections
    /\ IdleFiles
    /\ IdleContract

DetermineRisk ==
    /\ rpc = "scored"
    /\ rk_level' = determine_risk_level(rk_findings, rk_confidence, rk_coverage)
    /\ rpc' = "levelled"
    /\ UNCHANGED <<rk_findings, rk_confidence, rk_coverage, rk_band, NotRisk>>

MapBand ==
    /\ rpc = "levelled"
    /\ rk_band' = map_risk_to_band(rk_level)
    /\ rpc' = "banded"
    /\ UNCHANGED <<rk_findings, rk_confidence, rk_coverage, rk_level, NotRisk>>

NextRisk == DetermineRisk \/ MapBand

SpecRisk == InitRisk /\ [][NextRisk]_vars

-----------------------------------------------------------------------------
(* claims/evidence_to_claim.py: DeterministicClaimGenerator, phase 2.        *)
(* An observation is its sequence of words.  A template is the list of word  *)
(* patterns its regular expression accepts; "<code>" stands for \d{3},       *)
(* "<name>" for [\w_]+, "<quoted>" for '[^']+', "<ref>" for a word that      *)
(* starts with #/ and "<auth>" for a word that starts with auth.  re.search  *)
(* takes the leftmost match; (?i) compares the lowered words.                *)

\* str.lower on the words of the vocabulary
lower(w) ==
    CASE w = "Returns" -> "returns"
      [] w = "HTTP" -> "http"
      [] w = "Documents" -> "documents"
      [] w = "Requires" -> "requires"
      [] OTHER -> w

\* str.upper on the names of the vocabulary
upper(w) ==
    CASE w = "id" -> "ID"
      [] w = "'id'" -> "ID"
      [] w = "limit" -> "LIMIT"
      [] w \in {"Returns", "returns"} -> "RETURNS"
      [] w = "observed" -> "OBSERVED"
      [] w = "Documents" -> "DOCUMENTS"
      [] w = "defines" -> "DEFINES"
      [] w = "parameter" -> "PARAMETER"
      [] w = "schema" -> "SCHEMA"
      [] w = "user" -> "USER"
      [] w = "json" -> "JSON"
      [] w = "Requires" -> "REQUIRES"
      [] w = "invalid" -> "INVALID"
      [] w = "the" -> "THE"
      [] w = "path" -> "PATH"
      [] w = "get" -> "GET"
      [] w = "post" -> "POST"
      [] OTHER -> w

CodeWords == {"200", "201", "404", "500"}

\* int(m.group(1)) of a \d{3} word
code_of(w) ==
    CASE w = "200" -> 200
      [] w = "201" -> 201
      [] w = "404" -> 404
      [] w = "500" -> 500
      [] OTHER -> 0

\* m.group(1).replace('/', '_').replace('#', 'COMPONENTS')
schema_name(w) ==
    CASE w = "#/components/schemas/User" -> "COMPONENTS_components_schemas_User"
      [] OTHER -> w

MatchWord(w, m) ==
    CASE m = "<code>" -> w \in CodeWords
      [] m = "<name>" -> w \notin {"'id'", "#/components/schemas/User"}
      [] m = "<quoted>" -> w \in {"'id'"}
      [] m = "<ref>" -> w \in {"#/components/schemas/User"}
      [] m = "<auth>" -> lower(w) \in {"auth", "authentication"}
      \* [A-Z]+ before white space, with and without re.IGNORECASE
      [] m = "<upper>" -> w \in {"GET", "POST", "API", "HTTP"}
      [] m = "<letters>" -> w \notin {"##", "/users/{id}"} \cup CodeWords
      \* [/\w{}.-]+ and /[a-zA-Z][/\w{}.-]*
      [] m = "<path>" -> w # "##"
      [] m = "<slash>" -> w \in {"/users/{id}", "/orders"}
      [] OTHER -> lower(w) = m

MatchAt(words, i, pattern) ==
    /\ i + Len(pattern) - 1 <= Len(words)
    /\ \A j \in 1..Len(pattern) : MatchWord(words[i + j - 1], pattern[j])

\* a template: the word patterns of its regular expression, the pattern word of
\* its capture group ("" when the transform ignores the match) and its transform
Template(alts, group, ns, kind) == [alts |-> alts, group |-> group, ns |-> ns, kind |-> kind]

ReturnsCode == { <<"returns", "http", "<code>">>, <<"returns", "<code>">> }

\* evidence_to_claim.py:36-67
ASSERTION_TEMPLATES(category) ==
    CASE category = OUTPUT_GUARANTEE ->
           << Template(ReturnsCode, "<code>", "OUT", "HTTP"),
              Template({<<"observed", "http", "<code>", "in", "test">>}, "<code>", "OUT", "HTTP"),
              Template({<<"documents", "possible", "response", "<code>">>}, "<code>", "OUT", "HTTP"),
              Template({<<"defines", "response", "<code>">>}, "<code>", "OUT", "HTTP"),
              Template({<<"json", "body">>}, "", "OUT", "RETURNS_JSON"),
              Template({<<"schema", "references", "<ref>">>}, "<ref>", "OUT", "SCHEMA"),
              Template({<<"request", "body">>}, "", "OUT", "REQ_BODY_DEFINED"),
              Template({<<"user", "data">>}, "", "OUT", "USER_DATA") >>
      [] category = ERROR_SEMANTICS ->
           << Template({<<"observed", "http", "<code>", "in", "test">>}, "<code>", "ERR", "HTTP"),
              Template({<<"documents", "possible", "response", "<code>">>}, "<code>", "ERR", "HTTP"),
              Template({<<"defines", "response", "<code>">>}, "<code>", "ERR", "HTTP"),
              Template(ReturnsCode, "<code>", "ERR", "HTTP"),
              Template({<<"<code>">>}, "<code>", "ERR", "HTTP"),
              Template({<<"not", "found">>}, "", "ERR", "TYPE_NOT_FOUND"),
              Template({<<"unauthorized">>}, "", "ERR", "TYPE_UNAUTHORIZED"),
              Template({<<"invalid">>}, "", "ERR", "TYPE_INVALID_INPUT"),
              Template({<<"lacks", "permission">>}, "", "ERR", "TYPE_FORBIDDEN"),
              Template({<<"already", "exists">>}, "", "ERR", "TYPE_CONFLICT") >>
      [] category = INPUT_PRECONDITION ->
           << Template({<<"requires", "<auth>">>}, "", "PRE", "AUTH_REQUIRED"),
              Template({<<"parameter", "<name>">>}, "<name>", "PRE", "REQ_PARAM"),
              Template({<<"defines", "parameter", "<quoted>", "in", "<name>">>}, "<quoted>",
                       "PRE", "REQ_PARAM"),
              Template({<<"request", "body">>}, "", "PRE", "REQ_BODY"),
              Template({<<"defines", "request", "body">>}, "", "PRE", "REQ_BODY"),
              Template({<<"<auth>">>}, "", "PRE", "AUTH_REQUIRED") >>
      [] OTHER -> <<>>

Matches(template, words) ==
    \E i \in 1..Len(words) : \E pattern \in template.alts : MatchAt(words, i, pattern)

\* transform(match) for the leftmost match of the template
Transform(template, words) ==
    LET hit(i) == \E pattern \in template.alts : MatchAt(words, i, pattern)
        start == CHOOSE i \in 1..Len(words) : hit(i) /\ \A j \in 1..(i - 1) : ~hit(j)
        pattern == CHOOSE q \in template.alts : MatchAt(words, start, q)
        at == start - 1 + CHOOSE k \in 1..Len(pattern) : pattern[k] = template.group
    IN  CASE template.group = "" -> Token(template.ns, template.kind, 0, <<>>)
          [] template.group = "<code>" ->
               Token(template.ns, template.kind, code_of(words[at]), <<>>)
          [] template.group = "<ref>" ->
               \* (#/.*) runs to the end of the observation
               Token(template.ns, template.kind, 0,
                     <<schema_name(words[at])>> \o SubSeq(words, at + 1, Len(words)))
          [] OTHER -> Token(template.ns, template.kind, 0, <<upper(words[at])>>)

\* the assertion of a rejected skeleton
NoToken == Token("null", "null", 0, <<>>)

\* mutant: the last template that matches gives the token
last_template(templates, words, i) ==
    LET hits == {t \in i..Len(templates) : Matches(templates[t], words)}
    IN  IF hits = {} THEN NoToken
        ELSE Transform(templates[CHOOSE t \in hits : \A u \in hits : u <= t], words)

RECURSIVE first_template(_, _, _)
first_template(templates, words, i) ==
    IF i > Len(templates) THEN NoToken
    ELSE IF Matches(templates[i], words) THEN Transform(templates[i], words)
    ELSE first_template(templates, words, i + 1)

\* mutant: every category is canonicalized with the output_guarantee templates
_canonicalize_assertion_one_namespace(category, words) ==
    first_template(ASSERTION_TEMPLATES(OUTPUT_GUARANTEE), words, 1)

\* evidence_to_claim.py:122-132
_canonicalize_assertion(category, words) ==
    first_template(ASSERTION_TEMPLATES(category), words, 1)

MaxPhrases == 2

\* the observations the extractors write (test_extractor.py:136,
\* spec_extractor.py:119,218, readme_extractor.py:197) and README wording
Phrases ==
    { <<"Returns", "404">>, <<"returns", "HTTP", "200">>,
      <<"observed", "HTTP", "201", "in", "test">>,
      <<"Documents", "possible", "response", "404">>,
      <<"defines", "parameter", "'id'", "in", "path">>,
      <<"parameter", "limit">>,
      <<"defines", "request", "body">>,
      <<"schema", "references", "#/components/schemas/User">>,
      <<"user", "not", "found">>,
      <<"json", "body">>,
      <<"Requires", "authentication">>,
      <<"invalid">>,
      <<"the", "endpoint">> }

RECURSIVE Flatten(_)
Flatten(ss) == IF ss = <<>> THEN <<>> ELSE ss[1] \o Flatten(Tail(ss))

Observations == { Flatten(ps) : ps \in SeqsOf(Phrases, 1, MaxPhrases) }

Categories == <<OUTPUT_GUARANTEE, ERROR_SEMANTICS, INPUT_PRECONDITION>>

InitGen ==
    /\ raw_observation \in Observations
    /\ assertion_of = <<>>
    /\ gpc = "skeleton"
    /\ IdlePipe
    /\ IdleBucket
    /\ IdleRisk
    /\ IdleReadme
    /\ IdleTest
    /\ IdleProcess
    /\ IdleSections
    /\ IdleFiles
    /\ IdleContract

\* the same observation canonicalized as a skeleton of each category
Canonicalize ==
    /\ gpc = "skeleton"
    /\ assertion_of' = [c \in 1..Len(Categories) |->
                           _canonicalize_assertion(Categories[c], raw_observation)]
    /\ gpc' = "canonicalized"
    /\ UNCHANGED <<raw_observation, NotGen>>

NextGen == Canonicalize

SpecGen == InitGen /\ [][NextGen]_vars

-----------------------------------------------------------------------------
(* ingest/readme_extractor.py and the README part of ingest/extract.py, the  *)
(* extractor process.py imports.  A line is its sequence of words and a      *)
(* text a sequence of words with "\n" between the lines; x in text is the    *)
(* test for a contiguous subsequence.  The input is the list of API          *)
(* sections (start_line, end_line, lines) and what generate_structured does  *)
(* for each: it raises, returns JSON that is no list, or returns a list.     *)

RECURSIVE join_lines(_)
join_lines(ls) ==
    IF ls = <<>> THEN <<>>
    ELSE IF Len(ls) = 1 THEN ls[1]
    ELSE ls[1] \o <<"\n">> \o join_lines(Tail(ls))

section_content(section) == join_lines(section.section_lines)

\* snippet in text
IsSubstring(snippet, text) ==
    \E i \in 1..(Len(text) + 1) :
        /\ i + Len(snippet) - 1 <= Len(text)
        /\ \A j \in 1..Len(snippet) : text[i + j - 1] = snippet[j]

README_STATEMENT == "readme_statement"
TEST_ASSERTION == "test_assertion"

Location(kind, from, to) == [kind |-> kind, from |-> from, to |-> to]

Evidence(type, endpoint, observation, source_location, raw_snippet) ==
    [type |-> type, endpoint |-> endpoint, observation |-> observation,
     source_location |-> source_location, raw_snippet |-> raw_snippet]

\* re.finditer: the matches of a pattern from word i on, left to right, not overlapping
RECURSIVE finditer(_, _, _)
finditer(alts, words, i) ==
    IF i > Len(words) THEN <<>>
    ELSE IF \E q \in alts : MatchAt(words, i, q)
         THEN LET q == CHOOSE r \in alts : MatchAt(words, i, r)
              IN  << [start |-> i, pattern |-> q] >> \o finditer(alts, words, i + Len(q))
         ELSE finditer(alts, words, i + 1)

\* the first match of re.search, <<>> when there is none
search(alts, words) ==
    LET ms == finditer(alts, words, 1)
    IN  IF ms = <<>> THEN <<>> ELSE <<ms[1]>>

ReturnsStatus ==
    { <<"returns", "<code>">>, <<"returns", "http", "<code>">>,
      <<"return", "<code>">>, <<"return", "http", "<code>">> }

RespondsWithStatus ==
    { <<"responds", "with", "<code>">>, <<"responds", "with", "http", "<code>">>,
      <<"respond", "with", "<code>">>, <<"respond", "with", "http", "<code>">> }

StatusCode == { <<"status", "code", "<code>">> }

MethodAndPath == { <<"<upper>", "<path>">> }

\* readme_extractor.py:223-247; an endpoint is <<method, path>>, None is <<>>
RECURSIVE _extract_endpoint_from_context_at(_, _, _)
_extract_endpoint_from_context_at(ls, i, last) ==
    IF i > last THEN <<>>
    ELSE LET m == search(MethodAndPath, ls[i])
         IN  IF m # <<>> THEN << ls[i][m[1].start], ls[i][m[1].start + 1] >>
             ELSE _extract_endpoint_from_context_at(ls, i + 1, last)

\* current_line counts from 0; the range is max(0, current_line - 5) .. min(len, current_line + 6) - 1
_extract_endpoint_from_context(ls, current_line) ==
    _extract_endpoint_from_context_at(
        ls,
        (IF current_line - 5 > 0 THEN current_line - 5 ELSE 0) + 1,
        IF Len(ls) < current_line + 6 THEN Len(ls) ELSE current_line + 6)

\* the evidence of one pattern on line i (from 0) of a section
fallback_matches(alts, observation, ls, i, start_line, endpoint) ==
    LET ms == finditer(alts, ls[i + 1], 1)
    IN  IF endpoint = <<>> THEN <<>>
        ELSE [k \in 1..Len(ms) |->
                Evidence(README_STATEMENT, endpoint,
                         IF observation # <<>> THEN observation
                         ELSE <<"returns", "HTTP",
                                ls[i + 1][ms[k].start + Len(ms[k].pattern) - 1]>>,
                         Location("line", start_line + i, start_line + i),
                         ls[i + 1])]

\* readme_extractor.py:186-220
_extract_readme_fallback(ls, start_line) ==
    Flatten([n \in 1..Len(ls) |->
        LET endpoint == _extract_endpoint_from_context(ls, n - 1)
        IN  fallback_matches(ReturnsStatus, <<>>, ls, n - 1, start_line, endpoint)
            \o fallback_matches(RespondsWithStatus, <<>>, ls, n - 1, start_line, endpoint)
            \o fallback_matches(StatusCode, <<>>, ls, n - 1, start_line, endpoint)])

\* extract.py:361-385: as above, and a bare path is read as a GET
RECURSIVE extract_py_endpoint_from_context_at(_, _, _)
extract_py_endpoint_from_context_at(ls, i, last) ==
    IF i > last THEN <<>>
    ELSE LET m == search(MethodAndPath, ls[i])
             bare == search({ <<"<slash>">> }, ls[i])
         IN  IF m # <<>> THEN << ls[i][m[1].start], ls[i][m[1].start + 1] >>
             ELSE IF bare # <<>> THEN << "GET", ls[i][bare[1].start] >>
             ELSE extract_py_endpoint_from_context_at(ls, i + 1, last)

extract_py_endpoint_from_context(ls, current_line) ==
    extract_py_endpoint_from_context_at(
        ls,
        (IF current_line - 5 > 0 THEN current_line - 5 ELSE 0) + 1,
        IF Len(ls) < current_line + 6 THEN Len(ls) ELSE current_line + 6)

\* extract.py:328-357: a fourth pattern reports "endpoint exists"
extract_py_readme_fallback(ls, start_line) ==
    Flatten([n \in 1..Len(ls) |->
        LET endpoint == extract_py_endpoint_from_context(ls, n - 1)
        IN  fallback_matches(ReturnsStatus, <<>>, ls, n - 1, start_line, endpoint)
            \o fallback_matches(RespondsWithStatus, <<>>, ls, n - 1, start_line, endpoint)
            \o fallback_matches(StatusCode, <<>>, ls, n - 1, start_line, endpoint)
            \o fallback_matches({ <<"<letters>", "<path>">> }, <<"endpoint", "exists">>,
                                ls, n - 1, start_line, endpoint)])

\* an item of the collaborator's list: a JSON object with the three keys, an
\* object without raw_snippet, or a value that is no object (null)
Item(shape, endpoint, observation, raw_snippet) ==
    [shape |-> shape, endpoint |-> endpoint, observation |-> observation,
     raw_snippet |-> raw_snippet]

item_evidence(item, section) ==
    Evidence(README_STATEMENT, item.endpoint, item.observation,
             Location("lines", section.start_line, section.end_line), item.raw_snippet)

Extraction(raised, evidence) == [raised |-> raised, evidence |-> evidence]

\* readme_extractor.py:68-87, the loop over the items of a list; `k in item`
\* raises TypeError on an item that is no container
RECURSIVE readme_items(_, _, _)
readme_items(items, section, i) ==
    IF i > Len(items) THEN Extraction(FALSE, <<>>)
    ELSE IF items[i].shape = "not_object" THEN Extraction(TRUE, <<>>)
    ELSE LET rest == readme_items(items, section, i + 1)
             kept == IF /\ items[i].shape = "object"
                        /\ IsSubstring(items[i].raw_snippet, section_content(section))
                     THEN << item_evidence(items[i], section) >>
                     ELSE <<>>
         IN  Extraction(rest.raised, kept \o rest.evidence)

\* readme_extractor.py:55-87 for one section
readme_section(section, response) ==
    IF response.outcome = "raise"
    THEN Extraction(FALSE, _extract_readme_fallback(section.section_lines, section.start_line))
    ELSE IF response.outcome = "not_list" THEN Extraction(FALSE, <<>>)
    ELSE readme_items(response.items, section, 1)

\* readme_extractor.py:8-89; an exception leaves the function without a result
RECURSIVE extract_readme_evidence_from(_, _, _)
extract_readme_evidence_from(sections, rs, i) ==
    IF i > Len(sections) THEN Extraction(FALSE, <<>>)
    ELSE LET here == readme_section(sections[i], rs[i])
             rest == extract_readme_evidence_from(sections, rs, i + 1)
         IN  IF here.raised \/ rest.raised THEN Extraction(TRUE, <<>>)
             ELSE Extraction(FALSE, here.evidence \o rest.evidence)

extract_readme_evidence(sections, rs) == extract_readme_evidence_from(sections, rs, 1)

\* extract.py:87-98, the loop over the items inside the try block; raised
\* tells that the loop was left by an exception, evidence what was appended
RECURSIVE extract_py_items(_, _, _)
extract_py_items(items, section, i) ==
    IF i > Len(items) THEN Extraction(FALSE, <<>>)
    ELSE IF items[i].shape = "not_object" THEN Extraction(TRUE, <<>>)
    ELSE LET rest == extract_py_items(items, section, i + 1)
             kept == IF items[i].shape = "object"
                     THEN << item_evidence(items[i], section) >>
                     ELSE <<>>
         IN  Extraction(rest.raised, kept \o rest.evidence)

\* extract.py:82-107 for one section
extract_py_section(section, response) ==
    LET fallback == extract_py_readme_fallback(section.section_lines, section.start_line)
    IN  IF response.outcome = "raise" THEN fallback
        ELSE IF response.outcome = "not_list" THEN <<>>
        ELSE LET done == extract_py_items(response.items, section, 1)
             IN  IF done.raised THEN done.evidence \o fallback ELSE done.evidence

\* extract.py:39-109
_extract_readme_evidence(sections, rs) ==
    Flatten([i \in 1..Len(sections) |-> extract_py_section(sections[i], rs[i])])

MaxItems == 2

Section(start_line, end_line, section_lines) ==
    [start_line |-> start_line, end_line |-> end_line, section_lines |-> section_lines]

\* lines 1-2 and 5-6 of
\*   ## API / GET /users/{id} returns 404 / ## Setup / see docs /
\*   ## HTTP API / POST /orders responds with 201
UsersSection == Section(1, 2, << <<"##", "API">>, <<"GET", "/users/{id}", "returns", "404">> >>)

OrdersSection ==
    Section(5, 6, << <<"##", "HTTP", "API">>, <<"POST", "/orders", "responds", "with", "201">> >>)

Readmes == { <<UsersSection>>, <<UsersSection, OrdersSection>> }

\* what the collaborator may put in a list: a statement of either section,
\* a statement of no section, an object without raw_snippet, a null
Items ==
    { Item("object", <<"GET", "/users/{id}">>, <<"returns", "HTTP", "404">>, <<"returns", "404">>),
      Item("object", <<"POST", "/orders">>, <<"returns", "HTTP", "201">>,
           <<"responds", "with", "201">>),
      Item("object", <<"GET", "/users/{id}">>, <<"returns", "HTTP", "500">>, <<"returns", "500">>),
      Item("missing_key", <<"GET", "/users/{id}">>, <<"returns", "HTTP", "404">>, <<>>),
      Item("not_object", <<>>, <<>>, <<>>) }

Response(outcome, items) == [outcome |-> outcome, items |-> items]

Responses ==
    { Response("raise", <<>>), Response("not_list", <<>>) }
        \cup { Response("list", items) : items \in SeqsOf(Items, 0, MaxItems) }

InitReadme ==
    /\ api_sections \in Readmes
    /\ responses \in UNION { [1..Len(r) -> Responses] : r \in Readmes }
    /\ Len(responses) = Len(api_sections)
    /\ readme_evidence = <<>>
    /\ readme_raised = FALSE
    /\ xpc = "sections"
    /\ IdlePipe
    /\ IdleBucket
    /\ IdleRisk
    /\ IdleGen
    /\ IdleTest
    /\ IdleProcess
    /\ IdleSections
    /\ IdleFiles
    /\ IdleContract

\* readme_extractor.extract_readme_evidence
ExtractReadme ==
    /\ xpc = "sections"
    /\ LET result == extract_readme_evidence(api_sections, responses)
       IN  /\ readme_raised' = result.raised
           /\ readme_evidence' = result.evidence
    /\ xpc' = "extracted"
    /\ UNCHANGED <<api_sections, responses, NotReadme>>

\* extract.extract_evidence_from_file on a README, as process.py calls it
PipelineExtractReadme ==
    /\ xpc = "sections"
    /\ readme_evidence' = _extract_readme_evidence(api_sections, responses)
    /\ readme_raised' = FALSE
    /\ xpc' = "pipeline_extracted"
    /\ UNCHANGED <<api_sections, responses, NotReadme>>

NextReadme == ExtractReadme \/ PipelineExtractReadme

SpecReadme == InitReadme /\ [][NextReadme]_vars

-----------------------------------------------------------------------------
(* ingest/test_extractor.py.  A line of the test file is what the three      *)
(* regular expressions find in it: the name TEST_DEF_PATTERN matches at its  *)
(* start, the method and URL REQUEST_PATTERN finds, the status code the      *)
(* first of the ASSERT_PATTERNS finds ("" and <<>> for no match), and its    *)
(* stripped text.  None is "" for a name, <<>> for an endpoint and 0 for a   *)
(* line number.                                                              *)

MAX_ASSERT_DISTANCE == 5

Line(test_def, request, status, raw) ==
    [test_def |-> test_def, request |-> request, status |-> status, raw |-> raw]

\* test_extractor.py:36-68 on the URLs of the request lines
normalize_path(path) ==
    CASE path = "/users/1" -> "/users/{id}"
      [] path = "http://localhost/orders?limit=5" -> "/orders"
      [] OTHER -> path

TestContext(name, start_line) ==
    [name |-> name, start_line |-> start_line, current_endpoint |-> <<>>,
     last_request_line |-> 0]

NoTest == TestContext("", 0)

\* mutant: the distance is allowed to be one line more
too_far_off_by_one(line_num, last_request_line) ==
    \/ last_request_line = 0
    \/ line_num - last_request_line > MAX_ASSERT_DISTANCE + 1

\* test_extractor.py:108-112
too_far(line_num, last_request_line) ==
    \/ last_request_line = 0
    \/ line_num - last_request_line > MAX_ASSERT_DISTANCE

\* mutant: the new test function inherits the request of the one before
new_test_keeps_request(current_test, name, line_num) ==
    [current_test EXCEPT !.name = name, !.start_line = line_num]

\* test_extractor.py:85-88: a fresh context replaces the current one
new_test(current_test, name, line_num) == TestContext(name, line_num)

\* mutant: the endpoint stays current after an attribution
after_attribution_keeps_endpoint(current_test) == current_test

\* test_extractor.py:145-147
after_attribution(current_test) ==
    [current_test EXCEPT !.current_endpoint = <<>>, !.last_request_line = 0]

\* mutant: the observation tells when the status was observed
test_observation_with_condition(status_code) ==
    <<"observed", "HTTP", status_code, "in", "test", "when", "user", "exists">>

\* test_extractor.py:136
test_observation(status_code) == <<"observed", "HTTP", status_code, "in", "test">>

\* test_extractor.py:80-148, the body of the loop from line line_num on
RECURSIVE scan_lines(_, _, _, _, _)
scan_lines(ls, line_num, current_test, seen_evidence, evidence_list) ==
    IF line_num > Len(ls) THEN evidence_list
    ELSE LET line == ls[line_num]
             evidence_key == << current_test.current_endpoint, line.status,
                                current_test.name, line_num >>
         IN  IF line.test_def # ""
             THEN scan_lines(ls, line_num + 1,
                             new_test(current_test, line.test_def, line_num),
                             seen_evidence, evidence_list)
             ELSE IF current_test = NoTest
             THEN scan_lines(ls, line_num + 1, current_test, seen_evidence, evidence_list)
             ELSE IF line.request # <<>>
             THEN scan_lines(ls, line_num + 1,
                             [current_test EXCEPT
                                 !.current_endpoint = << upper(line.request[1]),
                                                         normalize_path(line.request[2]) >>,
                                 !.last_request_line = line_num],
                             seen_evidence, evidence_list)
             ELSE IF current_test.current_endpoint = <<>>
             THEN scan_lines(ls, line_num + 1, current_test, seen_evidence, evidence_list)
             ELSE IF too_far(line_num, current_test.last_request_line)
             THEN scan_lines(ls, line_num + 1, current_test, seen_evidence, evidence_list)
             ELSE IF line.status = "" \/ evidence_key \in seen_evidence
             THEN scan_lines(ls, line_num + 1, current_test, seen_evidence, evidence_list)
             ELSE scan_lines(ls, line_num + 1, after_attribution(current_test),
                             seen_evidence \cup {evidence_key},
                             Append(evidence_list,
                                    Evidence(TEST_ASSERTION, current_test.current_endpoint,
                                             test_observation(line.status),
                                             Location(current_test.name, line_num, line_num),
                                             <<line.raw>>)))

\* test_extractor.py:73-150
extract_test_evidence(ls) == scan_lines(ls, 1, NoTest, {}, <<>>)

MaxSegments == 4

DefLine == Line("test_get_user", <<>>, "", "def test_get_user():")
UserRequest == Line("", <<"get", "/users/1">>, "", "r = requests.get('/users/1')")
OrderRequest ==
    Line("", <<"post", "http://localhost/orders?limit=5">>, "",
         "r = client.post('http://localhost/orders?limit=5')")
AssertLine == Line("", <<>>, "200", "assert r.status_code == 200")
\* one line that holds both a request call and a status assertion
RequestAssertLine ==
    Line("", <<"get", "/users/1">>, "404", "assert requests.get('/users/1').status_code == 404")
OtherLine == Line("", <<>>, "", "data = r.json()")

Gap(n) == [i \in 1..n |-> OtherLine]

\* the pieces a test file is made of; the gaps put an assertion at a distance
\* below, at and above MAX_ASSERT_DISTANCE
Segments ==
    { <<DefLine>>, <<UserRequest>>, <<OrderRequest>>, <<AssertLine>>, <<RequestAssertLine>>,
      Gap(1), Gap(MAX_ASSERT_DISTANCE - 1), Gap(MAX_ASSERT_DISTANCE) }

TestFiles == { Flatten(segs) : segs \in SeqsOf(Segments, 1, MaxSegments) }

InitTest ==
    /\ lines \in TestFiles
    /\ test_evidence = <<>>
    /\ test_claims = <<>>
    /\ tpc = "file"
    /\ IdlePipe
    /\ IdleBucket
    /\ IdleRisk
    /\ IdleGen
    /\ IdleReadme
    /\ IdleProcess
    /\ IdleSections
    /\ IdleFiles
    /\ IdleContract

ExtractTest ==
    /\ tpc = "file"
    /\ test_evidence' = extract_test_evidence(lines)
    /\ tpc' = "extracted"
    /\ UNCHANGED <<lines, test_claims, NotTest>>

-----------------------------------------------------------------------------
(* claims/evidence_to_claim.py, DeterministicClaimGenerator.process: Phase 0 *)
(* admission, Phase 1 policy branching, Phase 2 assertion, Phase 3           *)
(* condition, Phase 4 materialization.  An endpoint string is the sequence   *)
(* of its pieces: a blank " ", a method word, or a path segment with its     *)
(* leading slash.  A condition "SUBJECT_PREDICATE" is the sequence of its    *)
(* parts between underscores and None the empty sequence.                    *)

SPEC_RESPONSE     == "spec_response"
SPEC_PARAMETER    == "spec_parameter"
SPEC_SCHEMA_REF   == "spec_schema_ref"
SPEC_REQUEST_BODY == "spec_request_body"
SPEC_SECURITY     == "spec_security"
EvidenceType == {TEST_ASSERTION, SPEC_RESPONSE, SPEC_PARAMETER, README_STATEMENT,
                 SPEC_SCHEMA_REF, SPEC_REQUEST_BODY, SPEC_SECURITY}

ClaimRejection(evidence_id, phase, reason, raw_data) ==
    [evidence_id |-> evidence_id, phase |-> phase, reason |-> reason, raw_data |-> raw_data]

POLICY(type) ==
    CASE type = SPEC_RESPONSE -> <<OUTPUT_GUARANTEE, ERROR_SEMANTICS>>
      [] type = SPEC_SECURITY -> <<INPUT_PRECONDITION>>
      [] type = TEST_ASSERTION -> <<OUTPUT_GUARANTEE, ERROR_SEMANTICS>>
      [] type = SPEC_PARAMETER -> <<INPUT_PRECONDITION>>
      [] type = README_STATEMENT ->
           <<OUTPUT_GUARANTEE, ERROR_SEMANTICS, INPUT_PRECONDITION>>
      [] type = SPEC_SCHEMA_REF -> <<OUTPUT_GUARANTEE>>
      [] type = SPEC_REQUEST_BODY -> <<INPUT_PRECONDITION>>
      [] OTHER -> <<>>

\* the branch on source_file is for a type outside the enumeration
_determine_source(type) ==
    CASE type = README_STATEMENT -> README
      [] type = TEST_ASSERTION -> TEST
      [] OTHER -> API_SPEC

\* str.strip
RECURSIVE lstrip(_)
lstrip(e) == IF e # <<>> /\ Head(e) = " " THEN lstrip(Tail(e)) ELSE e

RECURSIVE rstrip(_)
rstrip(e) ==
    IF e # <<>> /\ e[Len(e)] = " " THEN rstrip(SubSeq(e, 1, Len(e) - 1)) ELSE e

strip(e) == rstrip(lstrip(e))

\* str.upper on the pieces of an endpoint
upper_piece(w) ==
    CASE w \in {"get", "Get", "GET"} -> "GET"
      [] w \in {"post", "POST"} -> "POST"
      [] w \in {"fetch", "FETCH"} -> "FETCH"
      [] w \in {"/users", "/Users", "/USERS"} -> "/USERS"
      [] w \in {"/orders", "/ORDERS"} -> "/ORDERS"
      [] w \in {"/{id}", "/{ID}"} -> "/{ID}"
      [] w \in {"/{userId}", "/{USERID}"} -> "/{USERID}"
      [] OTHER -> w

VERBS == {"GET", "POST", "PUT", "DELETE", "PATCH", "HEAD", "OPTIONS"}

StartsWithSlash(w) ==
    w \in {"/users", "/Users", "/USERS", "/orders", "/ORDERS", "/{id}", "/{ID}",
           "/{userId}", "/{USERID}"}

\* mutant: any word is taken for the method
matches_endpoint_pattern_any_method(endpoint) ==
    /\ Len(endpoint) >= 3
    /\ \E k \in 3..Len(endpoint) :
          /\ StartsWithSlash(endpoint[k])
          /\ \A j \in 2..(k - 1) : endpoint[j] = " "

\* re.match(r"^(GET|POST|PUT|DELETE|PATCH|HEAD|OPTIONS)\s+\/.*", endpoint, re.IGNORECASE)
matches_endpoint_pattern(endpoint) ==
    /\ Len(endpoint) >= 3
    /\ upper_piece(endpoint[1]) \in VERBS
    /\ \E k \in 3..Len(endpoint) :
          /\ StartsWithSlash(endpoint[k])
          /\ \A j \in 2..(k - 1) : endpoint[j] = " "

\* re.sub(r"\{[^}]*\}", "{id}", piece)
sub_params(w) ==
    CASE w \in {"/{id}", "/{ID}", "/{userId}", "/{USERID}"} -> "/{id}"
      [] OTHER -> w

\* evidence_to_claim.py:118: the whole endpoint is upper-cased before the substitution
normalized_path(endpoint) ==
    [k \in 1..Len(endpoint) |-> sub_params(upper_piece(endpoint[k]))]

Admission(is_admitted, canonical_endpoint, rejection) ==
    [is_admitted |-> is_admitted, canonical_endpoint |-> canonical_endpoint,
     rejection |-> rejection]

NoRejection == ClaimRejection("null", "null", "null", <<>>)

\* evidence_to_claim.py:98-119
_admit(ev) ==
    IF ev.endpoint = <<>> \/ strip(ev.endpoint) = <<>>
    THEN Admission(FALSE, <<>>,
                   ClaimRejection(ev.source_location, "P0_ADMISSION", "EMPTY_ENDPOINT",
                                  ev.endpoint))
    ELSE IF ~matches_endpoint_pattern(strip(ev.endpoint))
    THEN Admission(FALSE, <<>>,
                   ClaimRejection(ev.source_location, "P0_ADMISSION",
                                  "MALFORMED_ENDPOINT_IDENTITY", strip(ev.endpoint)))
    ELSE Admission(TRUE, normalized_path(strip(ev.endpoint)), NoRejection)

\* evidence_to_claim.py:70-76, the predicate split at its underscores
CONDITION_NORMALIZER(predicate) ==
    CASE predicate = <<"is", "missing">> -> <<"NOT", "EXISTS">>
      [] predicate = <<"does", "not", "exist">> -> <<"NOT", "EXISTS">>
      [] predicate = <<"exists">> -> <<"EXISTS">>
      [] predicate = <<"is", "valid">> -> <<"VALID">>
      [] predicate = <<"is", "authenticated">> -> <<"AUTH", "TRUE">>
      [] OTHER -> <<"UNKNOWN">>

Predicates ==
    << <<"is", "missing">>, <<"does", "not", "exist">>, <<"exists">>, <<"is", "valid">>,
       <<"is", "authenticated">> >>

\* a word of \w characters
IsWord(w) == w \notin {"'id'", "#/components/schemas/User", ":"}

\* (?i)(?:if|when) ([\w\s]+) (is missing|does not exist|exists|is valid|is authenticated):
\* the leftmost if/when, the longest subject, the first alternative that fits
_extract_condition(words) ==
    LET lowered == [k \in 1..Len(words) |-> lower(words[k])]
        fits(i, j, p) ==
            /\ lowered[i] \in {"if", "when"}
            /\ j > i
            /\ \A k \in (i + 1)..j : IsWord(words[k])
            /\ j + Len(Predicates[p]) <= Len(words)
            /\ SubSeq(lowered, j + 1, j + Len(Predicates[p])) = Predicates[p]
        hit(i, j) == \E p \in 1..Len(Predicates) : fits(i, j, p)
        starts == {i \in 1..Len(words) : \E j \in 1..Len(words) : hit(i, j)}
    IN  IF starts = {} THEN <<>>
        ELSE LET i == CHOOSE a \in starts : \A b \in starts : a <= b
                 j == CHOOSE a \in 1..Len(words) :
                          hit(i, a) /\ \A b \in 1..Len(words) : hit(i, b) => b <= a
                 p == CHOOSE a \in 1..Len(Predicates) :
                          fits(i, j, a) /\ \A b \in 1..(a - 1) : ~fits(i, j, b)
             IN  [k \in 1..(j - i) |-> upper(words[i + k])]
                     \o CONDITION_NORMALIZER(Predicates[p])

Generated(cs, rs) == [claims |-> cs, rejections |-> rs]

\* mutant: the first unmappable skeleton ends the branching of the evidence
branch_until_rejection(ev, canonical_endpoint, categories, cat) ==
    IF cat > Len(categories) THEN Generated(<<>>, <<>>)
    ELSE IF _canonicalize_assertion(categories[cat], ev.observation) = NoToken
    THEN Generated(<<>>, <<ClaimRejection(<<"Skel", categories[cat]>>, "P2_ASSERTION",
                                          "UNMAPPABLE_OBSERVATION", ev.observation)>>)
    ELSE Generated(<<Claim(categories[cat], canonical_endpoint,
                           _extract_condition(ev.observation),
                           _canonicalize_assertion(categories[cat], ev.observation),
                           _determine_source(ev.type),
                           confidence_of(_determine_source(ev.type)))>>,
                   <<>>)

\* evidence_to_claim.py:161-185, the skeletons of one admitted evidence from cat on
RECURSIVE branch(_, _, _, _)
branch(ev, canonical_endpoint, categories, cat) ==
    IF cat > Len(categories) THEN Generated(<<>>, <<>>)
    ELSE LET rest == branch(ev, canonical_endpoint, categories, cat + 1)
             assertion == _canonicalize_assertion(categories[cat], ev.observation)
         IN  IF assertion = NoToken
             THEN Generated(rest.claims,
                            <<ClaimRejection(<<"Skel", categories[cat]>>, "P2_ASSERTION",
                                             "UNMAPPABLE_OBSERVATION", ev.observation)>>
                                \o rest.rejections)
             ELSE Generated(<<Claim(categories[cat], canonical_endpoint,
                                    _extract_condition(ev.observation), assertion,
                                    _determine_source(ev.type),
                                    confidence_of(_determine_source(ev.type)))>>
                                \o rest.claims,
                            rest.rejections)

\* evidence_to_claim.py:146-187
RECURSIVE process(_)
process(evs) ==
    IF evs = <<>> THEN Generated(<<>>, <<>>)
    ELSE LET admission == _admit(Head(evs))
             rest == process(Tail(evs))
             here == IF admission.is_admitted
                     THEN branch(Head(evs), admission.canonical_endpoint,
                                 POLICY(Head(evs).type), 1)
                     ELSE Generated(<<>>, <<admission.rejection>>)
         IN  Generated(here.claims \o rest.claims, here.rejections \o rest.rejections)

MaxEvidence == 2

Endpoints ==
    { <<>>, <<" ">>,
      <<"GET", " ", "/users", "/{id}">>,
      <<"get", " ", "/users", "/{userId}">>,
      <<"GET", " ", "/Users", "/{id}">>,
      <<" ", "post", " ", " ", "/orders", " ">>,
      <<"FETCH", " ", "/users">> }

\* an evidence type with an observation an extractor or a README gives it
Observed ==
    { <<README_STATEMENT, <<"returns", "404", "when", "the", "user", "does", "not", "exist">> >>,
      <<README_STATEMENT, <<"user", "not", "found", "Returns", "404">> >>,
      <<README_STATEMENT, <<"user", "not", "found">> >>,
      <<TEST_ASSERTION, <<"observed", "HTTP", "201", "in", "test">> >>,
      <<SPEC_PARAMETER, <<"defines", "parameter", "'id'", "in", "path">> >> }

EvidenceItems ==
    { Evidence(o[1], e, o[2], Location("lines", 1, 1), o[2]) : e \in Endpoints, o \in Observed }

\* the i-th item of an evidence list was found on line i
EvidenceLists ==
    { [i \in 1..Len(evs) |-> [evs[i] EXCEPT !.source_location = Location("lines", i, i)]] :
        evs \in SeqsOf(EvidenceItems, 0, MaxEvidence) }

InitProcess ==
    /\ the_evidence_list \in EvidenceLists
    /\ emitted_claims = <<>>
    /\ rejections = <<>>
    /\ kpc = "evidence"
    /\ IdlePipe
    /\ IdleBucket
    /\ IdleRisk
    /\ IdleGen
    /\ IdleReadme
    /\ IdleTest
    /\ IdleSections
    /\ IdleFiles
    /\ IdleContract

Process ==
    /\ kpc = "evidence"
    /\ emitted_claims' = process(the_evidence_list).claims
    /\ rejections' = process(the_evidence_list).rejections
    /\ kpc' = "processed"
    /\ UNCHANGED <<the_evidence_list, NotProcess>>

NextProcess == Process

SpecProcess == InitProcess /\ [][NextProcess]_vars

\* evidence_to_claim.py:161-185 on the test evidence from the k-th item on, each
\* item taken as admitted with its endpoint as written
RECURSIVE claims_of_admitted(_, _)
claims_of_admitted(evs, k) ==
    IF k > Len(evs) THEN <<>>
    ELSE branch(evs[k], evs[k].endpoint, POLICY(evs[k].type), 1).claims
         \o claims_of_admitted(evs, k + 1)

\* process.py stage 2 on the evidence of the test file
GenerateTestClaims ==
    /\ tpc = "extracted"
    /\ test_claims' = claims_of_admitted(test_evidence, 1)
    /\ tpc' = "generated"
    /\ UNCHANGED <<lines, test_evidence, NotTest>>

NextTest == ExtractTest \/ GenerateTestClaims

SpecTest == InitTest /\ [][NextTest]_vars

-----------------------------------------------------------------------------
(* ingest/readme_extractor.py, _find_api_sections.  A document is the list   *)
(* of its lines, a line the sequence of its words; the '#' run that opens a  *)
(* Markdown header is a word of its own.                                     *)

SIGNAL_THRESHOLD == 2

PSEUDO_LEVEL == 10000

PSEUDO_ROOT_LEVEL == 999

API_ROOT_HEADERS ==
    { <<"api">>, <<"endpoints">>, <<"routes">>, <<"rest", "api">>, <<"http", "api">> }

\* str.lower on the words of the documents
lower_word(w) ==
    CASE w = "API" -> "api"
      [] w = "HTTP" -> "http"
      [] w = "Endpoints" -> "endpoints"
      [] w = "Errors" -> "errors"
      [] w = "Installation" -> "installation"
      [] w = "Project" -> "project"
      [] w = "Example" -> "example"
      [] w = "GET" -> "get"
      [] OTHER -> w

\* the API_KEYWORDS (readme_extractor.py:103-106) that occur in a lower-case word
keywords_in(w) ==
    CASE w = "api" -> {"api"}
      [] w = "http" -> {"http"}
      [] w \in {"endpoints", "endpoints:"} -> {"endpoint"}
      [] w = "errors" -> {"error"}
      [] w \in {"request", "request:"} -> {"request"}
      [] w = "get" -> {"get"}
      [] OTHER -> {}

\* len(stripped) - len(stripped.lstrip("#")) for a line that opens with the word
hash_level(w) ==
    CASE w = "#" -> 1
      [] w = "##" -> 2
      [] w = "###" -> 3
      [] OTHER -> 0

EndsWithColon(w) == w \in {"request:", "endpoints:"}

\* str.strip(":") on a word
strip_colon(w) ==
    CASE w = "request:" -> "request"
      [] w = "endpoints:" -> "endpoints"
      [] OTHER -> w

Classified(level, is_pseudo) == [level |-> level, is_pseudo |-> is_pseudo]

\* mutant: a pseudo-header is classified as a header of level 1
classify_header_pseudo_level_one(line) ==
    IF line # <<>> /\ hash_level(line[1]) > 0 THEN Classified(hash_level(line[1]), FALSE)
    ELSE IF line # <<>> /\ EndsWithColon(line[Len(line)]) THEN Classified(1, TRUE)
    ELSE Classified(0, FALSE)

\* readme_extractor.py:127-134
classify_header(line) ==
    IF line # <<>> /\ hash_level(line[1]) > 0 THEN Classified(hash_level(line[1]), FALSE)
    ELSE IF line # <<>> /\ EndsWithColon(line[Len(line)]) THEN Classified(PSEUDO_LEVEL, TRUE)
    ELSE Classified(0, FALSE)

\* readme_extractor.py:136-138
get_api_signal(line) ==
    Cardinality(UNION {keywords_in(lower_word(line[k])) : k \in 1..Len(line)})

\* line.lower().strip("# ").strip(":")
header_text(line) ==
    LET body == IF line # <<>> /\ hash_level(line[1]) > 0 THEN Tail(line) ELSE line
    IN  [k \in 1..Len(body) |->
            IF k = Len(body) THEN strip_colon(lower_word(body[k])) ELSE lower_word(body[k])]

\* readme_extractor.py:113-123
is_api_header(text) ==
    \/ text \in API_ROOT_HEADERS
    \/ \E k \in 1..Len(text) : "api" \in keywords_in(text[k])
    \/ Cardinality(UNION {keywords_in(text[k]) : k \in 1..Len(text)}) >= 2

\* readme_extractor.py:140-141
is_killer_header(level, root_level, signal) ==
    level > 0 /\ level <= root_level /\ signal < SIGNAL_THRESHOLD

Scanner(sections, section_lines, section_start, in_api_section, section_root_level) ==
    [sections |-> sections, section_lines |-> section_lines,
     section_start |-> section_start, in_api_section |-> in_api_section,
     section_root_level |-> section_root_level]

\* mutant: the killer header is counted into the section it ends
closed_section_with_killer(s, i) == <<s.section_start, i, join_lines(s.section_lines)>>

\* readme_extractor.py:151-153
closed_section(s, i) == <<s.section_start, i - 1, join_lines(s.section_lines)>>

\* readme_extractor.py:149-156, the exit logic on line i
exit_logic(s, i, line) ==
    IF /\ s.in_api_section
       /\ is_killer_header(classify_header(line).level, s.section_root_level,
                           get_api_signal(line))
    THEN Scanner(Append(s.sections, closed_section(s, i)), <<>>, s.section_start, FALSE, 0)
    ELSE s

\* readme_extractor.py:159-171, the start logic on line i
start_logic(s, i, line) ==
    IF /\ ~s.in_api_section
       /\ classify_header(line).level > 0
       /\ is_api_header(header_text(line)) \/ get_api_signal(line) >= SIGNAL_THRESHOLD
    THEN Scanner(s.sections, s.section_lines, i, TRUE,
                 IF classify_header(line).is_pseudo THEN PSEUDO_ROOT_LEVEL
                 ELSE classify_header(line).level)
    ELSE s

\* readme_extractor.py:174-175
buffering(s, line) ==
    IF s.in_api_section THEN [s EXCEPT !.section_lines = Append(@, line)] ELSE s

\* readme_extractor.py:143-175, the loop from line i on
RECURSIVE scan_document(_, _, _)
scan_document(ls, i, s) ==
    IF i > Len(ls) THEN s
    ELSE scan_document(ls, i + 1, buffering(start_logic(exit_logic(s, i, ls[i]), i, ls[i]), ls[i]))

\* readme_extractor.py:92-183
_find_api_sections(ls) ==
    LET s == scan_document(ls, 1, Scanner(<<>>, <<>>, 1, FALSE, 0))
    IN  IF s.in_api_section /\ s.section_lines # <<>>
        THEN Append(s.sections, <<s.section_start, Len(ls), join_lines(s.section_lines)>>)
        ELSE s.sections

MaxDocLines == 4

DocLines ==
    { <<"#", "Project">>, <<"##", "Installation">>, <<"##", "HTTP", "API">>,
      <<"##", "Endpoints">>, <<"#", "API">>, <<"###", "Errors">>,
      <<"Example", "request:">>, <<"API", "endpoints:">>,
      <<"GET", "/users", "returns", "200">> }

InitSections ==
    /\ document \in SeqsOf(DocLines, 0, MaxDocLines)
    /\ found_sections = <<>>
    /\ spc = "document"
    /\ IdlePipe
    /\ IdleBucket
    /\ IdleRisk
    /\ IdleGen
    /\ IdleReadme
    /\ IdleTest
    /\ IdleProcess
    /\ IdleFiles
    /\ IdleContract

FindSections ==
    /\ spc = "document"
    /\ found_sections' = _find_api_sections(document)
    /\ spc' = "scanned"
    /\ UNCHANGED <<document, NotSections>>

NextSections == FindSections

SpecSections == InitSections /\ [][NextSections]_vars

-----------------------------------------------------------------------------
(* process.py, process_files: the five stages on a list of input files.  A   *)
(* file is its name and what extract_evidence_from_file does with it: it     *)
(* raises or it returns a list of evidence.  A stage after the first either  *)
(* completes or raises an unexpected exception.                              *)

File(name, raises, evidence) == [name |-> name, raises |-> raises, evidence |-> evidence]

\* process.py:53-92 on the names of the input files; None is "null"
detect_file_type(name) ==
    CASE name = "README.md" -> README
      [] name = "openapi.yaml" -> API_SPEC
      [] name = "test_users.py" -> TEST
      [] OTHER -> "null"

Extracted(raised, evidence, errors) ==
    [raised |-> raised, all_evidence |-> evidence, errors |-> errors]

\* process.py:121-145, the loop over the files from file i on: with a logger
\* the exception of a file is recorded with stage.add_error and the loop goes
\* on, without one it leaves process_files
RECURSIVE extract_files(_, _, _)
extract_files(files, logging, i) ==
    IF i > Len(files) THEN Extracted(FALSE, <<>>, <<>>)
    ELSE LET rest == extract_files(files, logging, i + 1)
         IN  IF detect_file_type(files[i].name) = "null" THEN rest
             ELSE IF files[i].raises
             THEN IF logging THEN [rest EXCEPT !.errors = <<i>> \o @]
                  ELSE Extracted(TRUE, <<>>, <<>>)
             ELSE IF rest.raised THEN rest
             ELSE [rest EXCEPT !.all_evidence = files[i].evidence \o @]

\* process.py:204-210
ProcessResult(context, evidence_count, claims_count, analysis_count, evaluation_count) ==
    [display_context |-> context, evidence_count |-> evidence_count,
     claims_count |-> claims_count, analysis_count |-> analysis_count,
     evaluation_count |-> evaluation_count]

MaxFiles == 2

UserEndpoint == <<"GET", " ", "/users", "/{id}">>

Files ==
    { File("README.md", FALSE,
           <<Evidence(README_STATEMENT, UserEndpoint, <<"returns", "HTTP", "200">>,
                      Location("lines", 1, 2), <<"returns", "200">>)>>),
      File("test_users.py", FALSE,
           <<Evidence(TEST_ASSERTION, UserEndpoint, <<"observed", "HTTP", "201", "in", "test">>,
                      Location("test_get_user", 3, 3), <<"assert r.status_code == 201">>)>>),
      File("test_users.py", TRUE, <<>>),
      File("openapi.yaml", FALSE,
           <<Evidence(SPEC_PARAMETER, UserEndpoint,
                      <<"defines", "parameter", "'id'", "in", "path">>,
                      Location("paths", 1, 1), <<"id">>)>>),
      File("openapi.yaml", TRUE, <<>>),
      File("notes.bin", TRUE, <<>>) }

InitFiles ==
    /\ file_paths \in SeqsOf(Files, 1, MaxFiles)
    /\ enable_logging \in BOOLEAN
    /\ all_evidence = <<>>
    /\ stage_errors = <<>>
    /\ process_result = <<>>
    /\ fpc = "files"
    /\ claims = <<>>
    /\ analyses = <<>>
    /\ evaluations = <<>>
    /\ display_context = NoDisplay
    /\ pc = "idle"
    /\ first_run = <<>>
    /\ IdleBucket
    /\ IdleRisk
    /\ IdleGen
    /\ IdleReadme
    /\ IdleTest
    /\ IdleProcess
    /\ IdleSections
    /\ IdleContract

NotFilesPipe ==
    <<bucketVars, riskVars, genVars, readmeVars, testVars, processVars, sectionVars,
      contractVars>>

\* process.py:118-145, stage 1
EvidenceExtraction ==
    /\ fpc = "files"
    /\ LET done == extract_files(file_paths, enable_logging, 1)
       IN  /\ all_evidence' = done.all_evidence
           /\ stage_errors' = done.errors
           /\ fpc' = IF done.raised THEN "raised" ELSE "evidence"
    /\ UNCHANGED <<file_paths, enable_logging, process_result, pipeVars, NotFilesPipe>>

\* process.py:147-160, stage 2
ClaimsGeneration ==
    /\ fpc = "evidence"
    /\ claims' = process(all_evidence).claims
    /\ fpc' = "claims"
    /\ UNCHANGED <<analyses, evaluations, display_context, pc, first_run, filesVarsButPc,
                   NotFilesPipe>>

\* process.py:162-172, stage 3
ClaimsAnalysis ==
    /\ fpc = "claims"
    /\ \E seed \in SeqPerms(AssertionsOf(claims)) :
          analyses' = analyse_claims(claims, seed)
    /\ fpc' = "analysed"
    /\ UNCHANGED <<claims, evaluations, display_context, pc, first_run, filesVarsButPc,
                   NotFilesPipe>>

\* process.py:174-190, stage 4
ClaimsEvaluation ==
    /\ fpc = "analysed"
    /\ evaluations' = EvaluateAll(analyses)
    /\ fpc' = "evaluated"
    /\ UNCHANGED <<claims, analyses, display_context, pc, first_run, filesVarsButPc,
                   NotFilesPipe>>

\* process.py:192-215, stage 5 and the return of the ProcessResult
DisplayContextCreation ==
    /\ fpc = "evaluated"
    /\ \E outcomes \in [1..Len(analyses) -> NarrationOutcomes] :
          /\ \A i \in 1..Len(analyses) : ~Conflicted(analyses[i]) => outcomes[i] = "text"
          /\ display_context' = create_display_context(analyses, evaluations, outcomes)
    /\ process_result' = << ProcessResult(display_context', Len(all_evidence), Len(claims),
                                          Len(analyses), Len(evaluations)) >>
    /\ fpc' = "returned"
    /\ UNCHANGED <<claims, analyses, evaluations, pc, first_run, file_paths, enable_logging,
                   all_evidence, stage_errors, NotFilesPipe>>

\* an unexpected exception in one of the stages 2 to 5: logger.stage records it
\* and raises it again (debug_logger.py:91-94), process_files logs it and raises
\* it again (process.py:217-221)
StageFails ==
    /\ fpc \in {"evidence", "claims", "analysed", "evaluated"}
    /\ fpc' = "raised"
    /\ UNCHANGED <<file_paths, enable_logging, all_evidence, stage_errors, process_result,
                   pipeVars, NotFilesPipe>>

NextFiles ==
    \/ EvidenceExtraction
    \/ ClaimsGeneration
    \/ ClaimsAnalysis
    \/ ClaimsEvaluation
    \/ DisplayContextCreation
    \/ StageFails

SpecFiles == InitFiles /\ [][NextFiles]_vars

-----------------------------------------------------------------------------
(* ingest/spec_extractor.py, extract_spec_evidence on the operations of one  *)
(* path item, then the claim generator and the analysis on what it returns.  *)
(* A path item is the list of its (key, operation) pairs in the order of the *)
(* mapping; an operation has responses, a list of (status key, description)  *)
(* pairs with pairwise different keys, and security: no key (the empty       *)
(* sequence) or a list (a sequence holding the list).  The operations have   *)
(* no $ref, parameters or requestBody.  A source location "a.b.c" is the     *)
(* sequence of its parts, and the ':' after the status code of an            *)
(* observation is a word of its own.                                         *)

HTTP_METHODS == {"get", "post", "put", "delete", "patch", "head", "options"}

\* str.lower on the keys of a path item
method_lower(method) ==
    CASE method = "GET" -> "get"
      [] method = "Get" -> "get"
      [] OTHER -> method

ResponseEntry(status_code, description) ==
    [status_code |-> status_code, description |-> description]

Operation(rs, security) == [responses |-> rs, security |-> security]

\* spec_extractor.py:16-21
emit_key(evidence) ==
    <<evidence.type, evidence.endpoint, evidence.source_location, evidence.observation>>

Emitted(evidence_list, seen_keys) == [evidence_list |-> evidence_list, seen |-> seen_keys]

\* mutant: the key is the whole evidence, raw snippet included
emit_keyed_by_item(evidence_list, seen_keys, evidence) ==
    IF emit_key(evidence) \o <<evidence.raw_snippet>> \in seen_keys
    THEN Emitted(evidence_list, seen_keys)
    ELSE Emitted(Append(evidence_list, evidence),
                 seen_keys \cup {emit_key(evidence) \o <<evidence.raw_snippet>>})

\* spec_extractor.py:16-26
emit(evidence_list, seen_keys, evidence) ==
    IF emit_key(evidence) \in seen_keys
    THEN Emitted(evidence_list, seen_keys)
    ELSE Emitted(Append(evidence_list, evidence), seen_keys \cup {emit_key(evidence)})

\* spec_extractor.py:148-153
response_observation(status_code, description) ==
    IF description # <<>>
    THEN <<"documents", "possible", "response", status_code, ":">> \o description
    ELSE <<"documents", "possible", "response", status_code>>

\* spec_extractor.py:155-164, the evidence of the responses from the k-th on
RECURSIVE response_evidence(_, _, _, _)
response_evidence(endpoint, source_base, rs, k) ==
    IF k > Len(rs) THEN <<>>
    ELSE << Evidence(SPEC_RESPONSE, endpoint,
                     response_observation(rs[k].status_code, rs[k].description),
                     source_base \o <<"responses", rs[k].status_code>>,
                     rs[k]) >>
         \o response_evidence(endpoint, source_base, rs, k + 1)

\* spec_extractor.py:249-261
security_evidence(endpoint, source_base, security) ==
    IF security # <<>>
    THEN << Evidence(SPEC_SECURITY, endpoint, <<"defines", "security", "requirements">>,
                     source_base \o <<"security">>, security[1]) >>
    ELSE <<>>

\* spec_extractor.py:55-261, what one (key, operation) pair hands to emit
operation_emissions(path, method, operation) ==
    LET method_lc == method_lower(method)
        endpoint == <<upper_piece(method_lc), " ">> \o path
        source_base == <<"paths", path, method_lc>>
    IN  IF method_lc \notin HTTP_METHODS THEN <<>>
        ELSE response_evidence(endpoint, source_base, operation.responses, 1)
             \o security_evidence(endpoint, source_base, operation.security)

\* the loop over path_obj.items()
RECURSIVE emissions(_, _, _)
emissions(path, items, k) ==
    IF k > Len(items) THEN <<>>
    ELSE operation_emissions(path, items[k][1], items[k][2]) \o emissions(path, items, k + 1)

MaxOperations == 2

UserPath == <<"/users", "/{id}">>

NotFoundText == <<"returns", "404", "when", "the", "user", "does", "not", "exist">>

ApiKey == << [apiKey |-> <<>>] >>

\* the operations of the contracts: one or two documented responses, with and
\* without a description, and security absent, empty or naming a scheme
Operations ==
    { Operation(<< ResponseEntry("200", <<>>) >>, <<>>),
      Operation(<< ResponseEntry("200", <<>>), ResponseEntry("404", <<>>) >>, <<>>),
      Operation(<< ResponseEntry("404", <<>>), ResponseEntry("200", <<>>) >>, << <<>> >>),
      Operation(<< ResponseEntry("200", NotFoundText) >>, << ApiKey >>),
      Operation(<< ResponseEntry("404", NotFoundText) >>, << <<>> >>),
      Operation(<<>>, << ApiKey >>) }

\* the keys of a path item: a method in two spellings and a key that is no method
MethodKeys == {"get", "GET", "summary"}

\* lists with pairwise different keys, as the items of a mapping are
DistinctKeys(items, key(_)) ==
    \A i, j \in 1..Len(items) : key(items[i]) = key(items[j]) => i = j

PathItems ==
    { items \in SeqsOf(MethodKeys \X Operations, 1, MaxOperations) :
        DistinctKeys(items, LAMBDA it : it[1]) }

InitContract ==
    /\ path_item \in PathItems
    /\ emit_pos = 1
    /\ spec_evidence_list = <<>>
    /\ seen = {}
    /\ contract_claims = <<>>
    /\ contract_rejections = <<>>
    /\ contract_evaluations = <<>>
    /\ cpc = "extracting"
    /\ IdlePipe
    /\ IdleBucket
    /\ IdleRisk
    /\ IdleGen
    /\ IdleReadme
    /\ IdleTest
    /\ IdleProcess
    /\ IdleSections
    /\ IdleFiles

\* one call of emit
Emit ==
    /\ cpc = "extracting"
    /\ emit_pos <= Len(emissions(UserPath, path_item, 1))
    /\ LET after == emit(spec_evidence_list, seen, emissions(UserPath, path_item, 1)[emit_pos])
       IN  /\ spec_evidence_list' = after.evidence_list
           /\ seen' = after.seen
    /\ emit_pos' = emit_pos + 1
    /\ UNCHANGED <<path_item, contract_claims, contract_rejections, contract_evaluations, cpc,
                   NotContract>>

\* spec_extractor.py:263
ReturnEvidence ==
    /\ cpc = "extracting"
    /\ emit_pos > Len(emissions(UserPath, path_item, 1))
    /\ cpc' = "extracted"
    /\ UNCHANGED <<path_item, emit_pos, spec_evidence_list, seen, contract_claims,
                   contract_rejections, contract_evaluations, NotContract>>

\* process.py stage 2 on the evidence of the contract
GenerateContractClaims ==
    /\ cpc = "extracted"
    /\ LET generated == process(spec_evidence_list)
       IN  /\ contract_claims' = generated.claims
           /\ contract_rejections' = generated.rejections
    /\ cpc' = "generated"
    /\ UNCHANGED <<path_item, emit_pos, spec_evidence_list, seen, contract_evaluations,
                   NotContract>>

\* process.py stages 3 and 4 on the claims of the contract
EvaluateContractClaims ==
    /\ cpc = "generated"
    /\ \E seed \in SeqPerms(AssertionsOf(contract_claims)) :
          contract_evaluations' = EvaluateAll(analyse_claims(contract_claims, seed))
    /\ cpc' = "evaluated"
    /\ UNCHANGED <<path_item, emit_pos, spec_evidence_list, seen, contract_claims,
                   contract_rejections, NotContract>>

NextContract == Emit \/ ReturnEvidence \/ GenerateContractClaims \/ EvaluateContractClaims

SpecContract == InitContract /\ [][NextContract]_vars

-----------------------------------------------------------------------------
(* Properties of the analysis stages *)

SameBehaviour(c1, c2) ==
    c1.endpoint = c2.endpoint /\ c1.category = c2.category /\ c1.condition = c2.condition

Analysed == pc \in {"analysed", "evaluated", "displayed"}

\* C1 (grouping invariant): two input claims lie in the claims list of one
\* AnalysisObject iff they have the same endpoint, category and condition; every
\* input claim lies in exactly one AnalysisObject, none is lost or duplicated,
\* and no AnalysisObject is empty.
C1_GroupingInvariant ==
    Analysed =>
        /\ \A i, j \in 1..Len(claims) :
              (\E a \in 1..Len(analyses) :
                   /\ claims[i] \in Range(analyses[a].claims)
                   /\ claims[j] \in Range(analyses[a].claims))
              <=> SameBehaviour(claims[i], claims[j])
        /\ \A i \in 1..Len(claims) :
              Cardinality({a \in 1..Len(analyses) : claims[i] \in Range(analyses[a].claims)}) = 1
        /\ SeqSum([a \in 1..Len(analyses) |-> Len(analyses[a].claims)]) = Len(claims)
        /\ \A a \in 1..Len(analyses) : analyses[a].claims # <<>>

\* three claims were grouped into a bucket of two and a bucket of one
C1_Witness ==
    /\ pc = "analysed"
    /\ Len(claims) = 3
    /\ Len(analyses) = 2
    /\ \E a \in 1..2 : Len(analyses[a].claims) = 2

MissingKinds == {MISSING_TESTS, MISSING_SPEC, MISSING_README}

BucketAnalysed == bpc \in {"analysed", "evaluated", "card"}

\* C2 (conflict detection): analyse_bucket emits exactly one CONTRADICTION
\* finding when the bucket holds more than one distinct assertion and none
\* otherwise; the unit card of the bucket has has_conflicts exactly when the
\* finding is present, and then lists CONTRADICTION among its structural warnings.
C2_ConflictDetection ==
    /\ BucketAnalysed =>
          CountKind(the_analysis[1].findings, CONTRADICTION)
              = (IF Cardinality(AssertionsOf(the_bucket)) > 1 THEN 1 ELSE 0)
    /\ bpc = "card" =>
          /\ unit_card[1].assertion_state.has_conflicts
                <=> CONTRADICTION \in Kinds(the_analysis[1].findings)
          /\ unit_card[1].assertion_state.has_conflicts
                => CONTRADICTION \in Range(unit_card[1].structural_warnings)

\* the card of a bucket in which two sources agree and a third disagrees
C2_Witness ==
    /\ bpc = "card"
    /\ Len(the_bucket) = 3
    /\ Cardinality(AssertionsOf(the_bucket)) = 2
    /\ unit_card[1].assertion_state.has_conflicts
    /\ CONTRADICTION \in Range(unit_card[1].structural_warnings)

\* C3 (risk ladder): 'critical' iff a contradiction finding or confidence < 0.3;
\* else 'high' iff a multiple-success-variant or documentation-only finding, or
\* confidence < 0.5, or coverage < 0.5; else 'medium' iff confidence < 0.7 or
\* coverage < 0.7; else 'low'.  A contradiction finding gives 'critical' and the
\* band CRITICAL whatever the scores are.
C3_RiskLadder ==
    LET kinds == {rk_findings[i].kind : i \in 1..Len(rk_findings)}
        conf_below(n) == rk_confidence[1] * 10 < n * rk_confidence[2]
        cov_below(n) == rk_coverage[1] * 10 < n * rk_coverage[2]
        critical == CONTRADICTION \in kinds \/ conf_below(3)
        high == \/ MULTIPLE_SUCCESS_VARIANTS \in kinds
                \/ DOCUMENTATION_ONLY \in kinds
                \/ conf_below(5)
                \/ cov_below(5)
        medium == conf_below(7) \/ cov_below(7)
    IN  /\ rpc \in {"levelled", "banded"} =>
              /\ rk_level = "critical" <=> critical
              /\ rk_level = "high" <=> (~critical /\ high)
              /\ rk_level = "medium" <=> (~critical /\ ~high /\ medium)
              /\ rk_level = "low" <=> (~critical /\ ~high /\ ~medium)
        /\ rpc = "banded" /\ CONTRADICTION \in kinds => rk_band = "critical"

\* a contradiction with a multiple-success-variant finding, full coverage and
\* high confidence is banded CRITICAL
C3_Witness ==
    /\ rpc = "banded"
    /\ {CONTRADICTION, MULTIPLE_SUCCESS_VARIANTS} \subseteq Kinds(rk_findings)
    /\ rk_confidence = <<90, 100>>
    /\ rk_coverage = <<3, 3>>
    /\ rk_band = "critical"

\* C4 (coverage completeness): coverage_score is the number of distinct sources
\* of the bucket over 3, and a bucket with claims from readme, api_spec and test
\* has coverage_score 1.0 and no MISSING_* finding.
C4_CoverageCompleteness ==
    bpc \in {"evaluated", "card"} =>
        /\ the_evaluation[1].coverage_score[1] * 3
              = Cardinality(SourcesOf(the_bucket)) * the_evaluation[1].coverage_score[2]
        /\ {README, API_SPEC, TEST} \subseteq SourcesOf(the_bucket) =>
              /\ the_evaluation[1].coverage_score[1] = the_evaluation[1].coverage_score[2]
              /\ Kinds(the_evaluation[1].findings) \cap MissingKinds = {}

\* C8 (determinism): a second run on the same claims yields the same
\* AnalysisObjects (findings and their details included) and the same
\* EvaluationObjects as the first.
C8_Determinism ==
    pc = "evaluated" /\ first_run # <<>> =>
        /\ analyses = first_run[1].analyses
        /\ evaluations = first_run[1].evaluations

\* C9 (join): the unit cards are, in analysis order, those of the analyses whose
\* (endpoint, category, condition) is the key of some evaluation; with every
\* bucket evaluated there is one card per distinct comparison key of the claims;
\* README 200 / contract 201 / test 201 on one key give one conflicted card with
\* a CONTRADICTION warning, coverage 1.0 and the band critical.
C9_Join ==
    pc = "displayed" =>
        LET units == display_context.behavioral_units
            has_match(a) == \E e \in 1..Len(evaluations) :
                               /\ evaluations[e].endpoint = a.endpoint
                               /\ evaluations[e].category = a.category
                               /\ evaluations[e].condition = a.condition
            matched == SelectSeq(analyses, has_match)
        IN  /\ Len(units) = Len(matched)
            /\ \A i \in 1..Len(matched) :
                  /\ units[i].endpoint = matched[i].endpoint
                  /\ units[i].category = matched[i].category
                  /\ units[i].condition = matched[i].condition
                  /\ units[i].claims = matched[i].claims
            /\ Len(evaluations) = Len(analyses) =>
                  Len(units) = Cardinality({<<claims[i].endpoint, claims[i].category,
                                              claims[i].condition>> : i \in 1..Len(claims)})
            /\ ( /\ Len(evaluations) = Len(analyses)
                 /\ Len(claims) = 3
                 /\ \A i, j \in 1..3 : SameBehaviour(claims[i], claims[j])
                 /\ {<<claims[i].assertion, claims[i].source>> : i \in 1..3}
                       = {<<OUT_HTTP(200), README>>, <<OUT_HTTP(201), API_SPEC>>,
                          <<OUT_HTTP(201), TEST>>} )
               => /\ Len(units) = 1
                  /\ units[1].assertion_state.has_conflicts
                  /\ CONTRADICTION \in Range(units[1].structural_warnings)
                  /\ units[1].coverage_score[1] = units[1].coverage_score[2]
                  /\ units[1].risk_band = "critical"

\* an analysis without an evaluation was dropped and another one was displayed
C9_Witness ==
    /\ pc = "displayed"
    /\ Len(analyses) = 3
    /\ Len(evaluations) = 1
    /\ Len(display_context.behavioral_units) = 1
    /\ display_context.behavioral_units[1].endpoint = analyses[2].endpoint

\* C5 (namespace invariant): the token _canonicalize_assertion gives an
\* observation under output_guarantee starts with OUT_, under error_semantics
\* with ERR_, under input_precondition with PRE_; the tokens of one observation
\* under output_guarantee and error_semantics are never the same.
C5_NamespaceInvariant ==
    gpc = "canonicalized" =>
        /\ assertion_of[1] # NoToken => assertion_of[1].ns = "OUT"
        /\ assertion_of[2] # NoToken => assertion_of[2].ns = "ERR"
        /\ assertion_of[3] # NoToken => assertion_of[3].ns = "PRE"
        /\ assertion_of[1] # NoToken /\ assertion_of[2] # NoToken
              => assertion_of[1] # assertion_of[2]

\* "Returns 404 ... Requires authentication" has a token in each namespace
C5_Witness ==
    /\ gpc = "canonicalized"
    /\ assertion_of[1] = OUT_HTTP(404)
    /\ assertion_of[2] = ERR_HTTP(404)
    /\ assertion_of[3] = Token("PRE", "AUTH_REQUIRED", 0, <<>>)

SectionOf(evidence) ==
    { i \in 1..Len(api_sections) :
        /\ api_sections[i].start_line = evidence.source_location.from
        /\ api_sections[i].end_line = evidence.source_location.to }

\* C6 (provenance guard): in the README extraction of the pipeline, an item
\* whose raw_snippet is not a verbatim substring of the section text never
\* becomes Evidence, and the well-formed items with a verbatim snippet next to
\* it in the same response still do.
C6_ProvenanceGuard ==
    xpc = "pipeline_extracted" =>
        /\ \A k \in 1..Len(readme_evidence) :
              readme_evidence[k].source_location.kind = "lines" =>
                  \E i \in SectionOf(readme_evidence[k]) :
                      IsSubstring(readme_evidence[k].raw_snippet,
                                  section_content(api_sections[i]))
        /\ \A i \in 1..Len(api_sections) :
              \A k \in 1..Len(responses[i].items) :
                  ( /\ \A j \in 1..Len(responses[i].items) :
                          responses[i].items[j].shape # "not_object"
                    /\ responses[i].items[k].shape = "object"
                    /\ IsSubstring(responses[i].items[k].raw_snippet,
                                   section_content(api_sections[i])) )
                  => item_evidence(responses[i].items[k], api_sections[i])
                         \in Range(readme_evidence)

\* the response of a failed call, or one that is no list of well-formed objects
Malformed(response) ==
    \/ response.outcome \in {"raise", "not_list"}
    \/ \E k \in 1..Len(response.items) : response.items[k].shape # "object"

\* C10 (external-service failure never aborts): extract_readme_evidence does
\* not raise; for a section whose call failed or returned malformed output the
\* evidence of the fallback extractor is in the result, and the sections after
\* it are still processed; a unit card whose narration call failed is the card
\* of a successful narration with semantic_description = null.
C10_NeverAborts ==
    /\ xpc = "extracted" =>
          /\ ~readme_raised
          /\ \A i \in 1..Len(api_sections) :
                Malformed(responses[i]) =>
                    Range(_extract_readme_fallback(api_sections[i].section_lines,
                                                   api_sections[i].start_line))
                        \subseteq Range(readme_evidence)
          /\ \A i \in 1..Len(api_sections) :
                ~Malformed(responses[i]) =>
                    Range(readme_section(api_sections[i], responses[i]).evidence)
                        \subseteq Range(readme_evidence)
    /\ bpc = "card" /\ narration = "raise" =>
          unit_card[1] = [create_behavior_unit_card(the_analysis[1], the_evaluation[1], "text")
                             EXCEPT !.semantic_description = "null"]

IsDefLine(n) == lines[n].test_def # ""

\* a line the scan reads as a request call
IsRequestLine(n) == lines[n].test_def = "" /\ lines[n].request # <<>>

\* C7 (proximity guard): evidence is emitted for a status assertion only when,
\* in the current test function, the most recent request call lies at most
\* MAX_ASSERT_DISTANCE (5) lines before the assertion line; its endpoint is
\* the endpoint of that request.
C7_ProximityGuard ==
    tpc = "extracted" =>
        \A k \in 1..Len(test_evidence) :
            LET n == test_evidence[k].source_location.from
            IN  \E d \in 1..(n - 1) : \E r \in (d + 1)..(n - 1) :
                    /\ IsDefLine(d)
                    /\ IsRequestLine(r)
                    /\ \A m \in (d + 1)..(n - 1) : ~IsDefLine(m)
                    /\ \A m \in (r + 1)..(n - 1) : ~IsRequestLine(m)
                    /\ n - r <= 5
                    /\ n - r <= MAX_ASSERT_DISTANCE
                    /\ test_evidence[k].endpoint
                          = << upper(lines[r].request[1]), normalize_path(lines[r].request[2]) >>
                    /\ lines[n].status # ""

\* an assertion six lines after the request of its test yields no evidence
C7_Witness ==
    /\ tpc = "extracted"
    /\ Len(lines) = 8
    /\ IsDefLine(1)
    /\ IsRequestLine(2)
    /\ \A m \in 3..7 : lines[m] = OtherLine
    /\ lines[8] = AssertLine
    /\ test_evidence = <<>>


-----------------------------------------------------------------------------
(* Properties of the claim generator *)

Processed == kpc = "processed"

Blank(endpoint) == \A k \in 1..Len(endpoint) : endpoint[k] = " "

\* METHOD /path: a standard verb in any letter case, white space, a path from its slash on
IsMethodPath(endpoint) ==
    LET e == strip(endpoint)
    IN  /\ Len(e) >= 3
        /\ \E verb \in VERBS : upper_piece(e[1]) = verb
        /\ e[2] = " "
        /\ \E k \in 3..Len(e) :
              StartsWithSlash(e[k]) /\ \A j \in 2..(k - 1) : e[j] = " "

NotAdmissible(ev) == Blank(ev.endpoint) \/ ~IsMethodPath(ev.endpoint)

RejectionsOf(ev) ==
    {r \in 1..Len(rejections) : rejections[r].evidence_id = ev.source_location}

Admissible(ev) == ~NotAdmissible(ev)

\* C12: an evidence item whose endpoint is empty, blank or not of the form
\* 'METHOD /path' gives exactly one rejection, at phase P0_ADMISSION, and no
\* claim: the claims emitted are those of the other items, which are still
\* processed; an endpoint that is not blank and does not match is rejected
\* with reason MALFORMED_ENDPOINT_IDENTITY.
C12_AdmissionErrors ==
    Processed =>
        /\ \A i \in 1..Len(the_evidence_list) :
              LET ev == the_evidence_list[i]
              IN  NotAdmissible(ev) =>
                    /\ Cardinality(RejectionsOf(ev)) = 1
                    /\ \A r \in RejectionsOf(ev) :
                          /\ rejections[r].phase = "P0_ADMISSION"
                          /\ ~Blank(ev.endpoint) =>
                                rejections[r].reason = "MALFORMED_ENDPOINT_IDENTITY"
        /\ emitted_claims = process(SelectSeq(the_evidence_list, Admissible)).claims
        /\ (\A i \in 1..Len(the_evidence_list) : NotAdmissible(the_evidence_list[i]))
              => emitted_claims = <<>>

\* a malformed endpoint is rejected and the item after it still gives claims
C12_Witness ==
    /\ Processed
    /\ Len(the_evidence_list) = 2
    /\ ~Blank(the_evidence_list[1].endpoint)
    /\ NotAdmissible(the_evidence_list[1])
    /\ Admissible(the_evidence_list[2])
    /\ Len(emitted_claims) > 0
    /\ Len(rejections) > 0
    /\ rejections[1].reason = "MALFORMED_ENDPOINT_IDENTITY"

IsParameter(piece) == piece \in {"/{id}", "/{userId}"}

\* the stripped endpoint with the method upper-cased and each {...} segment
\* replaced by {id}
CanonicalForm(endpoint) ==
    LET e == strip(endpoint)
    IN  [k \in 1..Len(e) |->
            IF k = 1 THEN upper_piece(e[k])
            ELSE IF IsParameter(e[k]) THEN "/{id}" ELSE e[k]]

GivesClaims(ev) == process(<<ev>>).claims # <<>>

\* C13: the canonical endpoint of an admitted evidence item is its stripped
\* endpoint with the method upper-cased and every {...} segment replaced by
\* {id}, the rest of the path as written; so two admitted endpoints that
\* differ in the literal text of the path give claims with different
\* endpoints.
C13_CanonicalEndpoint ==
    Processed =>
        /\ \A c \in 1..Len(emitted_claims) :
              \E i \in 1..Len(the_evidence_list) :
                 /\ Admissible(the_evidence_list[i])
                 /\ emitted_claims[c].endpoint = CanonicalForm(the_evidence_list[i].endpoint)
        /\ \A i, j \in 1..Len(the_evidence_list) :
              LET a == the_evidence_list[i]
                  b == the_evidence_list[j]
              IN  /\ Admissible(a) /\ GivesClaims(a)
                  /\ Admissible(b) /\ GivesClaims(b)
                  /\ CanonicalForm(a.endpoint) # CanonicalForm(b.endpoint)
                  => \E c, d \in 1..Len(emitted_claims) :
                        emitted_claims[c].endpoint # emitted_claims[d].endpoint

\* the number of categories the policy table gives an evidence type
PolicyCategories(type) ==
    CASE type = README_STATEMENT -> {OUTPUT_GUARANTEE, ERROR_SEMANTICS, INPUT_PRECONDITION}
      [] type \in {SPEC_RESPONSE, TEST_ASSERTION} -> {OUTPUT_GUARANTEE, ERROR_SEMANTICS}
      [] type = SPEC_SCHEMA_REF -> {OUTPUT_GUARANTEE}
      [] OTHER -> {INPUT_PRECONDITION}

Accounted(ev) == IF Admissible(ev) THEN Cardinality(PolicyCategories(ev.type)) ELSE 1

RECURSIVE ClaimsInOrder(_)
ClaimsInOrder(evs) ==
    IF evs = <<>> THEN <<>> ELSE process(<<Head(evs)>>).claims \o ClaimsInOrder(Tail(evs))

\* C14: every evidence item is accounted for: one Phase-0 rejection and no
\* claim, or for each policy category of its type one claim or one Phase-2
\* rejection; the claims and rejections together number the items not
\* admitted plus the policy categories of the admitted ones, and the claims
\* come in the order of the evidence.
C14_AuditAccounting ==
    Processed =>
        /\ Len(emitted_claims) + Len(rejections)
              = SeqSum([i \in 1..Len(the_evidence_list) |-> Accounted(the_evidence_list[i])])
        /\ Cardinality({r \in 1..Len(rejections) : rejections[r].phase = "P0_ADMISSION"})
              = Cardinality({i \in 1..Len(the_evidence_list) :
                               NotAdmissible(the_evidence_list[i])})
        /\ \A cat \in ClaimCategory :
              Cardinality({c \in 1..Len(emitted_claims) : emitted_claims[c].category = cat})
                 + Cardinality({r \in 1..Len(rejections) :
                                  /\ rejections[r].phase = "P2_ASSERTION"
                                  /\ rejections[r].evidence_id = <<"Skel", cat>>})
              = Cardinality({i \in 1..Len(the_evidence_list) :
                               /\ Admissible(the_evidence_list[i])
                               /\ cat \in PolicyCategories(the_evidence_list[i].type)})
        /\ emitted_claims = ClaimsInOrder(the_evidence_list)

\* an item rejected at admission, then a README item that gives one claim
\* between two Phase-2 rejections
C14_Witness ==
    /\ Processed
    /\ Len(the_evidence_list) = 2
    /\ NotAdmissible(the_evidence_list[1])
    /\ Admissible(the_evidence_list[2])
    /\ the_evidence_list[2].type = README_STATEMENT
    /\ Len(emitted_claims) = 1
    /\ emitted_claims[1].category = ERROR_SEMANTICS
    /\ Len(rejections) = 3

\* the rules of a category that match an observation
MatchingRules(cat, observation) ==
    {t \in 1..Len(ASSERTION_TEMPLATES(cat)) : Matches(ASSERTION_TEMPLATES(cat)[t], observation)}

FirstRule(cat, observation) ==
    CHOOSE t \in MatchingRules(cat, observation) :
        \A u \in MatchingRules(cat, observation) : t <= u

\* the admitted items that get a skeleton of the category, with or without
\* a rule that matches
Skeletons(evs, cat, mapped) ==
    LET Wanted(ev) ==
            /\ Admissible(ev)
            /\ cat \in PolicyCategories(ev.type)
            /\ mapped <=> MatchingRules(cat, ev.observation) # {}
    IN  SelectSeq(evs, Wanted)

OfCategory(cs, cat) == LET Is(c) == c.category = cat IN SelectSeq(cs, Is)

SkeletonRejections(rs, cat) ==
    LET Is(r) == r.phase = "P2_ASSERTION" /\ r.evidence_id = <<"Skel", cat>>
    IN  SelectSeq(rs, Is)

\* C15: the assertion of a claim is the transform of the first rule, in the
\* order of the category's list, that matches the observation; a skeleton no
\* rule of its category matches is rejected with UNMAPPABLE_OBSERVATION and
\* gives no claim, and the other categories of the evidence are processed.
C15_FirstMatch ==
    Processed =>
        \A cat \in ClaimCategory :
           LET mapped == Skeletons(the_evidence_list, cat, TRUE)
               unmapped == Skeletons(the_evidence_list, cat, FALSE)
               cs == OfCategory(emitted_claims, cat)
               rs == SkeletonRejections(rejections, cat)
           IN  /\ Len(cs) = Len(mapped)
               /\ \A k \in 1..Len(cs) :
                     cs[k].assertion
                        = Transform(ASSERTION_TEMPLATES(cat)[FirstRule(cat, mapped[k].observation)],
                                    mapped[k].observation)
               /\ Len(rs) = Len(unmapped)
               /\ \A k \in 1..Len(rs) :
                     /\ rs[k].reason = "UNMAPPABLE_OBSERVATION"
                     /\ rs[k].raw_data = unmapped[k].observation

\* 'user not found Returns 404': the error rule for 'returns <code>' stands
\* before the rule for 'not found' and gives ERR_HTTP_404, and the
\* input_precondition skeleton of the same evidence is rejected
C15_Witness ==
    /\ Processed
    /\ Len(the_evidence_list) = 1
    /\ Cardinality(MatchingRules(ERROR_SEMANTICS, the_evidence_list[1].observation)) >= 3
    /\ Len(emitted_claims) = 2
    /\ emitted_claims[2].assertion = ERR_HTTP(404)
    /\ Len(rejections) = 1
    /\ rejections[1].reason = "UNMAPPABLE_OBSERVATION"

-----------------------------------------------------------------------------
(* Properties of the test scanner *)

TestExtracted == tpc = "extracted"

EvidenceLine(k) == test_evidence[k].source_location.from

\* the last line before n that the scan reads as a request call, 0 if none
LastRequest(n) ==
    LET before == {r \in 1..(n - 1) : IsRequestLine(r)}
    IN  IF before = {} THEN 0 ELSE CHOOSE r \in before : \A q \in before : q <= r

\* the last line before n that starts a test function, 0 if none
LastDef(n) ==
    LET before == {d \in 1..(n - 1) : IsDefLine(d)}
    IN  IF before = {} THEN 0 ELSE CHOOSE d \in before : \A q \in before : q <= d

IsAssertLine(n) == ~IsDefLine(n) /\ ~IsRequestLine(n) /\ lines[n].status # ""

\* C16 (leakage prevention): a request call yields at most one evidence item:
\* once an assertion has been attributed to it, a later assertion line gives
\* evidence only after another request call, so the evidence items, which
\* come from assertion lines, have pairwise different last request calls.
C16_LeakagePrevention ==
    TestExtracted =>
        /\ \A k \in 1..Len(test_evidence) :
              /\ IsAssertLine(EvidenceLine(k))
              /\ LastRequest(EvidenceLine(k)) > 0
        /\ \A j, k \in 1..Len(test_evidence) :
              j < k =>
                 /\ EvidenceLine(j) < EvidenceLine(k)
                 /\ EvidenceLine(j) < LastRequest(EvidenceLine(k))

\* def, request, assertion, assertion: the second assertion, one line after
\* the first, gives no evidence
C16_Witness ==
    /\ TestExtracted
    /\ Len(lines) >= 4
    /\ IsDefLine(1)
    /\ IsRequestLine(2)
    /\ lines[3] = AssertLine
    /\ lines[4] = AssertLine
    /\ Len(test_evidence) >= 1
    /\ EvidenceLine(1) = 3
    /\ \A k \in 1..Len(test_evidence) : EvidenceLine(k) # 4

\* C17 (test-function boundary): a line that starts a test function resets
\* the scanner, so the request call an assertion is attributed to lies in the
\* assertion's own test function, after its def line, however near a request
\* of an earlier function is; lines before the first test function give no
\* evidence.
C17_FunctionBoundary ==
    TestExtracted =>
        \A k \in 1..Len(test_evidence) :
           LET n == EvidenceLine(k)
           IN  /\ LastDef(n) > 0
               /\ LastRequest(n) > LastDef(n)
               /\ test_evidence[k].source_location.kind = lines[LastDef(n)].test_def
               /\ test_evidence[k].endpoint
                     = << upper(lines[LastRequest(n)].request[1]),
                          normalize_path(lines[LastRequest(n)].request[2]) >>

\* def, request, def, assertion: the assertion is two lines after the request
\* of the earlier function and gives no evidence
C17_Witness ==
    /\ TestExtracted
    /\ Len(lines) = 4
    /\ IsDefLine(1)
    /\ IsRequestLine(2)
    /\ IsDefLine(3)
    /\ lines[4] = AssertLine
    /\ test_evidence = <<>>

-----------------------------------------------------------------------------
(* Properties of the README section scanner *)

Scanned == spc = "scanned"

\* the number of '#' that open line n, 0 for a line that is no Markdown header
MarkdownLevel(n) == IF document[n] = <<>> THEN 0 ELSE hash_level(document[n][1])

\* a line that is no Markdown header and ends in ':'
IsPseudoHeader(n) ==
    /\ document[n] # <<>>
    /\ MarkdownLevel(n) = 0
    /\ EndsWithColon(document[n][Len(document[n])])

\* the root level of a section opened on line a
RootLevel(a) == IF IsPseudoHeader(a) THEN PSEUDO_ROOT_LEVEL ELSE MarkdownLevel(a)

\* line n ends the section opened on line a
Kills(n, a) ==
    /\ MarkdownLevel(n) > 0
    /\ MarkdownLevel(n) <= RootLevel(a)
    /\ get_api_signal(document[n]) < 2

\* C18 (section termination): a section ends exactly before the first line
\* after its start that is a header of level above 0 and at most the root
\* level with a keyword signal below 2, or at the end of the document when
\* there is none; a pseudo-header never ends a section a Markdown header
\* started, nor does a Markdown header of a deeper level than the root.
C18_SectionTermination ==
    Scanned =>
        \A k \in 1..Len(found_sections) :
           LET a == found_sections[k][1]
               b == found_sections[k][2]
           IN  /\ \A n \in (a + 1)..b : ~Kills(n, a)
               /\ b = Len(document) \/ Kills(b + 1, a)
               /\ (MarkdownLevel(a) > 0 /\ b < Len(document)) =>
                     ~IsPseudoHeader(b + 1) /\ MarkdownLevel(b + 1) <= MarkdownLevel(a)

\* '## HTTP API', 'Example request:', '### Errors', '## Installation': the
\* pseudo-header and the deeper header stay in the section, the header of the
\* root's level and signal 0 ends it
C18_Witness ==
    /\ Scanned
    /\ Len(document) = 4
    /\ MarkdownLevel(1) = 2
    /\ IsPseudoHeader(2)
    /\ MarkdownLevel(3) = 3
    /\ Kills(4, 1)
    /\ Len(found_sections) = 1
    /\ found_sections[1][1] = 1
    /\ found_sections[1][2] = 3

\* a header that can open a section
Opens(n) ==
    /\ MarkdownLevel(n) > 0 \/ IsPseudoHeader(n)
    /\ \/ is_api_header(header_text(document[n]))
       \/ get_api_signal(document[n]) >= 2

\* C19 (section buffering): the sections come in increasing line order and
\* are pairwise disjoint; each (start, end, text) has start <= end, starts at
\* the header that opened it and has as text the lines start..end joined by
\* newlines, the killer header left out; a section the document ends in is
\* returned with the last line number as its end.
C19_SectionBuffering ==
    Scanned =>
        /\ \A k \in 1..Len(found_sections) :
              LET a == found_sections[k][1]
                  b == found_sections[k][2]
              IN  /\ 1 <= a /\ a <= b /\ b <= Len(document)
                  /\ Opens(a)
                  /\ found_sections[k][3] = join_lines(SubSeq(document, a, b))
                  /\ (\A n \in (a + 1)..Len(document) : ~Kills(n, a)) => b = Len(document)
                  /\ k > 1 => found_sections[k - 1][2] < a
        /\ \A n \in 1..Len(document) :
              Opens(n) => \E k \in 1..Len(found_sections) :
                             found_sections[k][1] <= n /\ n <= found_sections[k][2]

\* two sections, the second opened by the header that ends the first and
\* still open at the end of the document
C19_Witness ==
    /\ Scanned
    /\ Len(document) = 4
    /\ Len(found_sections) = 2
    /\ found_sections[1][1] = 1
    /\ found_sections[1][2] = 2
    /\ found_sections[2][1] = 3
    /\ found_sections[2][2] = 4
    /\ found_sections[2][3] = join_lines(SubSeq(document, 3, 4))

-----------------------------------------------------------------------------
(* Properties of the size findings *)

FindingsOfKind(k) ==
    LET Is(f) == f.kind = k IN SelectSeq(the_analysis[1].findings, Is)

BucketConfidences == {the_bucket[i].confidence : i \in 1..Len(the_bucket)}

\* C20: analyse_bucket emits UNVERIFIED exactly for a bucket of one claim and
\* CONFIDENCE_SPREAD exactly for a bucket of two or more, with the minimum,
\* the maximum and their difference over the confidences of the bucket; each
\* AnalysisObject has exactly one of the two findings.
C20_SizeFindings ==
    BucketAnalysed =>
        /\ Len(the_bucket) >= 1
        /\ Len(FindingsOfKind(UNVERIFIED)) = (IF Len(the_bucket) = 1 THEN 1 ELSE 0)
        /\ Len(FindingsOfKind(CONFIDENCE_SPREAD)) = (IF Len(the_bucket) >= 2 THEN 1 ELSE 0)
        /\ Len(FindingsOfKind(UNVERIFIED)) + Len(FindingsOfKind(CONFIDENCE_SPREAD)) = 1
        /\ \A k \in 1..Len(FindingsOfKind(CONFIDENCE_SPREAD)) :
              LET spread == FindingsOfKind(CONFIDENCE_SPREAD)[k].details.spread
              IN  /\ spread[1] \in BucketConfidences
                  /\ spread[2] \in BucketConfidences
                  /\ \A c \in BucketConfidences : spread[1] <= c /\ c <= spread[2]
                  /\ spread[3] = spread[2] - spread[1]

\* a README claim and a test claim: confidences 0.7 and 0.9, spread 0.2
C20_Witness ==
    /\ BucketAnalysed
    /\ Len(the_bucket) = 2
    /\ Len(FindingsOfKind(CONFIDENCE_SPREAD)) = 1
    /\ FindingsOfKind(CONFIDENCE_SPREAD)[1].details.spread = <<70, 90, 20>>
    /\ FindingsOfKind(UNVERIFIED) = <<>>

-----------------------------------------------------------------------------
(* Properties of process_files *)

\* a file of a known type on which the evidence extractor raises
ExtractionFails(i) ==
    detect_file_type(file_paths[i].name) # "null" /\ file_paths[i].raises

\* C11 (abort on unexpected failure): when a stage raises an unexpected
\* exception, the evidence extractor failing on one of the input files
\* included, process_files raises and returns no ProcessResult, with and
\* without logging: a result is returned only by a run none of whose stages
\* failed.
C11_AbortOnFailure ==
    /\ process_result # <<>> =>
          /\ fpc = "returned"
          /\ \A i \in 1..Len(file_paths) : ~ExtractionFails(i)
    /\ fpc = "raised" => process_result = <<>>

-----------------------------------------------------------------------------
(* Properties of the source findings *)

\* the number of findings of kind k is 1 when present holds and 0 otherwise
OnceIff(k, present) ==
    CountKind(the_analysis[1].findings, k) = (IF present THEN 1 ELSE 0)

\* C21 (source-presence findings): MISSING_TESTS, MISSING_SPEC and
\* MISSING_README are present exactly when test, api_spec, readme is absent
\* from the sources of the bucket; IMPLEMENTATION_ONLY exactly when the source
\* set is {test}; DOCUMENTATION_ONLY exactly when test is absent and readme or
\* api_spec is present; each of them occurs at most once in a bucket.
C21_SourceFindings ==
    BucketAnalysed =>
        LET sources == SourcesOf(the_bucket)
        IN  /\ OnceIff(MISSING_TESTS, TEST \notin sources)
            /\ OnceIff(MISSING_SPEC, API_SPEC \notin sources)
            /\ OnceIff(MISSING_README, README \notin sources)
            /\ OnceIff(IMPLEMENTATION_ONLY, sources = {TEST})
            /\ OnceIff(DOCUMENTATION_ONLY,
                       TEST \notin sources /\ ({README, API_SPEC} \cap sources # {}))

\* a bucket of a readme claim and a code claim is analysed: documentation-only,
\* with the test and the specification missing
C21_Witness ==
    /\ bpc = "analysed"
    /\ SourcesOf(the_bucket) = {README, CODE}
    /\ Kinds(the_analysis[1].findings) \cap
          {MISSING_TESTS, MISSING_SPEC, MISSING_README, IMPLEMENTATION_ONLY, DOCUMENTATION_ONLY}
        = {MISSING_TESTS, MISSING_SPEC, DOCUMENTATION_ONLY}

-----------------------------------------------------------------------------
(* Properties of the coverage view *)

\* the three sources the coverage view knows, absent from the claims of unit u
MissingSources(u) == {TEST, API_SPEC, README} \ SourcesOf(u.claims)

\* the units among units that miss source s, in their order
UnitsMissing(units, s) == SelectSeq(units, LAMBDA u : s \in MissingSources(u))

\* C22 (coverage-gap view): a unit whose claims cover test, api_spec and readme
\* is in full_coverage and in no gap list; a unit missing k >= 1 of them is in
\* exactly the gap lists of its missing sources and not in full_coverage; every
\* unit is in at least one of the four lists; the view is a function of the
\* unit cards.
C22_CoverageView ==
    pc = "displayed" =>
        LET units == display_context.behavioral_units
            view == display_context.coverage_view
        IN  /\ view.no_tests = UnitsMissing(units, TEST)
            /\ view.no_spec = UnitsMissing(units, API_SPEC)
            /\ view.no_readme = UnitsMissing(units, README)
            /\ view.full_coverage = SelectSeq(units, LAMBDA u : MissingSources(u) = {})
            /\ \A i \in 1..Len(units) :
                  units[i] \in Range(view.no_tests) \cup Range(view.no_spec)
                                 \cup Range(view.no_readme) \cup Range(view.full_coverage)
            /\ view = create_coverage_view(units)

\* two units are displayed: one asserted by the README alone, in the two gap
\* lists of the test and the contract, the other missing only the README
C22_Witness ==
    /\ pc = "displayed"
    /\ Len(display_context.behavioral_units) = 2
    /\ \E i, j \in 1..2 :
          LET u == display_context.behavioral_units[i]
              v == display_context.behavioral_units[j]
              view == display_context.coverage_view
          IN  /\ MissingSources(u) = {TEST, API_SPEC}
              /\ u \in Range(view.no_tests) \cap Range(view.no_spec)
              /\ u \notin Range(view.no_readme) \cup Range(view.full_coverage)
              /\ MissingSources(v) = {README}
              /\ v \in Range(view.no_readme)
              /\ v \notin Range(view.no_tests) \cup Range(view.no_spec)
                            \cup Range(view.full_coverage)

-----------------------------------------------------------------------------
(* Properties of the contract extractor *)

\* what the loop has handed to emit so far
Offered == SubSeq(emissions(UserPath, path_item, 1), 1, emit_pos - 1)

\* the items of a list whose key no earlier item has, in their order
RECURSIVE FirstOfEachKey(_, _)
FirstOfEachKey(items, k) ==
    IF k > Len(items) THEN <<>>
    ELSE (IF \E j \in 1..(k - 1) : emit_key(items[j]) = emit_key(items[k])
          THEN <<>> ELSE <<items[k]>>)
         \o FirstOfEachKey(items, k + 1)

\* C23 (de-duplication): after any sequence of emissions the evidence list
\* holds no two items with the same (type, endpoint, source_location,
\* observation); an emission whose key was seen leaves the list as it is, and
\* the first item of each key stays where it was appended.
C23_Deduplication ==
    cpc # "idle" =>
        /\ \A i, j \in 1..Len(spec_evidence_list) :
              emit_key(spec_evidence_list[i]) = emit_key(spec_evidence_list[j]) => i = j
        /\ spec_evidence_list = FirstOfEachKey(Offered, 1)
        /\ seen = {emit_key(Offered[k]) : k \in 1..Len(Offered)}

\* the operation under 'get' defines security, the one under 'GET' a response
\* and other security requirements: three emissions, two items, the security
\* item that of the first operation
C23_Witness ==
    /\ cpc = "extracted"
    /\ Len(Offered) = 3
    /\ Offered[1].type = SPEC_SECURITY
    /\ Offered[3].type = SPEC_SECURITY
    /\ emit_key(Offered[1]) = emit_key(Offered[3])
    /\ Offered[1].raw_snippet # Offered[3].raw_snippet
    /\ spec_evidence_list = <<Offered[1], Offered[2]>>

-----------------------------------------------------------------------------
(* Properties of the success variants *)

\* the distinct OUT_HTTP_2xx tokens of the bucket
SuccessTokens == {a \in AssertionsOf(the_bucket) : IsSuccessToken(a)}

\* C24 (success variants are contradictions): a bucket with more than one
\* distinct OUT_HTTP_2xx token has the MULTIPLE_SUCCESS_VARIANTS finding and
\* with it a CONTRADICTION finding and the risk level 'critical'; no bucket
\* with a MULTIPLE_SUCCESS_VARIANTS finding is classified 'high'.
C24_VariantsAreCritical ==
    /\ BucketAnalysed =>
          LET kinds == Kinds(the_analysis[1].findings)
          IN  /\ Cardinality(SuccessTokens) > 1 => MULTIPLE_SUCCESS_VARIANTS \in kinds
              /\ MULTIPLE_SUCCESS_VARIANTS \in kinds => CONTRADICTION \in kinds
    /\ bpc \in {"evaluated", "card"} =>
          /\ Cardinality(SuccessTokens) > 1 => the_evaluation[1].risk_level = "critical"
          /\ MULTIPLE_SUCCESS_VARIANTS \in Kinds(the_evaluation[1].findings)
                => the_evaluation[1].risk_level # "high"

\* README, contract and test assert success with two codes and nothing else:
\* full coverage, both findings, 'critical'
C24_Witness ==
    /\ bpc = "evaluated"
    /\ SourcesOf(the_bucket) = {README, API_SPEC, TEST}
    /\ AssertionsOf(the_bucket) = {OUT_HTTP(200), OUT_HTTP(201)}
    /\ {MULTIPLE_SUCCESS_VARIANTS, CONTRADICTION} \subseteq Kinds(the_evaluation[1].findings)
    /\ the_evaluation[1].risk_level = "critical"

\* the evaluations of the claims of the contract
ContractEvaluated == cpc = "evaluated"

\* C25 (contradictions are between artifacts): a bucket gets a CONTRADICTION
\* finding only when its claims come from at least two different sources; a
\* bucket whose claims all come from one API contract has no CONTRADICTION
\* finding and is not 'critical'.
C25_CrossSourceContradiction ==
    ContractEvaluated =>
        \A k \in 1..Len(contract_evaluations) :
            LET e == contract_evaluations[k]
            IN  /\ CONTRADICTION \in Kinds(e.findings) => Cardinality(SourcesOf(e.claims)) >= 2
                /\ Cardinality(SourcesOf(e.claims)) = 1 => e.risk_level # "critical"

ContractGenerated == cpc \in {"generated", "evaluated"}

PRE_AUTH_REQUIRED == Token("PRE", "AUTH_REQUIRED", 0, <<>>)

\* C29 (security requirements become claims): every SPEC_SECURITY evidence of
\* an operation with security requirements gives an input_precondition claim
\* PRE_AUTH_REQUIRED for its endpoint, and no UNMAPPABLE_OBSERVATION rejection.
C29_SecurityClaims ==
    ContractGenerated =>
        \A k \in 1..Len(spec_evidence_list) :
            LET ev == spec_evidence_list[k]
            IN  ev.type = SPEC_SECURITY /\ ev.raw_snippet # <<>> =>
                    /\ \E c \in 1..Len(contract_claims) :
                          /\ contract_claims[c].category = INPUT_PRECONDITION
                          /\ contract_claims[c].assertion = PRE_AUTH_REQUIRED
                          /\ contract_claims[c].endpoint = _admit(ev).canonical_endpoint
                    /\ \A r \in 1..Len(contract_rejections) :
                          ~(/\ contract_rejections[r].reason = "UNMAPPABLE_OBSERVATION"
                            /\ contract_rejections[r].raw_data = ev.observation)

\* the claims the generator makes of one evidence item
ClaimsOfItem(ev) == process(<<ev>>).claims

IsStatusToken(a, ns) == a.ns = ns /\ a.kind = "HTTP"

\* C30 (one status code per evidence): when one evidence item gives an
\* OUT_HTTP_x claim and an ERR_HTTP_y claim, x = y, also for a documented
\* response whose description names another status code.
C30_SameStatusCode ==
    ContractGenerated =>
        \A k \in 1..Len(spec_evidence_list) :
            LET made == ClaimsOfItem(spec_evidence_list[k])
            IN  /\ \A c \in 1..Len(made) : made[c] \in Range(contract_claims)
                /\ \A c, d \in 1..Len(made) :
                      /\ IsStatusToken(made[c].assertion, "OUT")
                      /\ IsStatusToken(made[d].assertion, "ERR")
                      => made[c].assertion.code = made[d].assertion.code

-----------------------------------------------------------------------------
(* Properties of the scores *)

\* C26 (coverage range): for every non-empty bucket of claims the Claim model
\* accepts, claims of source 'code' included, the coverage_score of
\* evaluate_bucket is at least 0.0 and at most 1.0.
C26_CoverageRange ==
    bpc \in {"evaluated", "card"} =>
        LET score == the_evaluation[1].coverage_score
        IN  /\ ~ScoreLt(score, 0, 1)
            /\ ~ScoreLt(<<1, 1>>, score[1], score[2])

\* a bucket of readme, api_spec and test claims only
DocumentedSources == SourcesOf(the_bucket) \subseteq {README, API_SPEC, TEST}

\* C27 (risk levels over source sets): for a bucket of readme, api_spec and
\* test claims, 'low' occurs only with all three sources and no contradiction;
\* a bucket of one source is never 'medium' or 'low'; a bucket without a test
\* claim is never 'medium' or 'low'.
C27_RiskBySources ==
    bpc \in {"evaluated", "card"} /\ DocumentedSources =>
        LET risk == the_evaluation[1].risk_level
            sources == SourcesOf(the_bucket)
        IN  /\ risk = "low" =>
                  /\ sources = {README, API_SPEC, TEST}
                  /\ CONTRADICTION \notin Kinds(the_evaluation[1].findings)
            /\ Cardinality(sources) = 1 => risk \notin {"medium", "low"}
            /\ TEST \notin sources => risk \notin {"medium", "low"}

\* README, contract and test agree on one assertion: 'low'
C27_Witness ==
    /\ bpc = "evaluated"
    /\ SourcesOf(the_bucket) = {README, API_SPEC, TEST}
    /\ Cardinality(AssertionsOf(the_bucket)) = 1
    /\ the_evaluation[1].risk_level = "low"

-----------------------------------------------------------------------------
(* Properties of the claims of a test file *)

\* C28 (test claims are unconditional): the observation of every evidence item
\* of the test extractor has no if/when condition, and every claim derived
\* from it has the condition None, so that its comparison key is that of the
\* unconditional claims of its endpoint and category.
C28_TestClaimsUnconditional ==
    /\ tpc \in {"extracted", "generated"} =>
          \A k \in 1..Len(test_evidence) :
              /\ test_evidence[k].observation
                    = <<"observed", "HTTP", test_evidence[k].observation[3], "in", "test">>
              /\ _extract_condition(test_evidence[k].observation) = <<>>
    /\ tpc = "generated" =>
          /\ Len(test_claims) = 2 * Len(test_evidence)
          /\ \A c \in 1..Len(test_claims) :
                /\ test_claims[c].source = TEST
                /\ test_claims[c].condition = <<>>
                /\ comparison_key(test_claims[c])
                      = <<test_claims[c].endpoint, test_claims[c].category, <<>> >>

\* a test file with an attributed assertion gives an output_guarantee claim
\* and an error_semantics claim, both without a condition
C28_Witness ==
    /\ tpc = "generated"
    /\ Len(test_evidence) = 1
    /\ Len(test_claims) = 2
    /\ \A c \in 1..2 : test_claims[c].condition = <<>>
    /\ test_claims[1].assertion = OUT_HTTP(200)
    /\ test_claims[2].assertion = ERR_HTTP(200)

=============================================================================
